---- MODULE Spec2Model ----
(***************************************************************************)
(* Charon's Gamble: run lifecycle, world simulation and save (Game,        *)
(* SaveService, YandexPlatform / NoopPlatform).                            *)
(*                                                                         *)
(* Units.  The code computes in IEEE doubles; the model computes the same  *)
(* expressions exactly, in integers:                                       *)
(*   time      milliseconds      (elapsedSec * 1000, dt * 1000)            *)
(*   balance   milli-obols       (coinsBalance * 1000)                     *)
(*   distance  milli-pixels      (distance * 1000)                         *)
(*   position  quarter pixels    (x * 4, y * 4, r * 4)                     *)
(*   upgrade multipliers and chances, Math.random: thousandths             *)
(*   Date.now  milliseconds, advanced in steps of ClockStepSec seconds     *)
(* Wallet, scores, earnings and counters are the code's own integers.      *)
(*                                                                         *)
(* JavaScript runs one handler at a time; an async handler runs up to its  *)
(* first pending await, and its continuation runs as a microtask right     *)
(* after the promise is resolved, before any other event.  Each action     *)
(* below is therefore one handler run, or one SDK callback together with   *)
(* the continuation it resolves.                                           *)
(***************************************************************************)
EXTENDS Integers, Sequences, FiniteSets, Bags, TLC

VARIABLES
    game,            \* the fields of the Game object
    platform,        \* the Platform object: kind, adDepth, ads in flight
    localStorage,    \* the payload under SAVE_STORAGE_KEY
    economy,         \* the config: economy, gates, obstacles, upgrades
    documentHidden,  \* document.hidden
    nowSec           \* Date.now() / 1000

vars == <<game, platform, localStorage, economy, documentHidden, nowSec>>

----------------------------------------------------------------------------
(* Bounds of the model *)

MaxDeaths == 2        \* no new run is started after this many deaths (SpecRuns)
MaxDeathsLong == 5    \* the same, in SpecInterstitial
MaxDeathsOne == 1     \* the same, in Spec, SpecReward and SpecE2E
MaxAds == 1           \* ads in flight at once
MaxAdsReward == 2     \* the same, in SpecReward
MaxPauseDepth == 2    \* game_api_pause is not fired at this depth
MaxClockSteps == 3    \* steps of the wall clock
ClockStepSec == 35    \* seconds per step of the wall clock
BootSec == 1000       \* Date.now() / 1000 when the page loads
InitialBest == 30     \* a best score found in the stored payload at boot
NestDepth == 3        \* pause callbacks applied in a row in C2 and C3
MaxStoredLevel == 3   \* the highest upgrade level found in storage
MaxResets == 1        \* progress resets whose cloud save is in flight at once
MaxEffects == 3       \* effects active at once (SpecEffects)

(* Program constants *)

WIDTH == 900
HEIGHT == 520
GATE_GAP == 120
GATE_HEIGHT == 26
REVIVE_INVULN_MS == 1200
BASE_MAGNET_RADIUS == 50
BASE_BRIBE_COOLDOWN_SEC == 450     \* 0.45 s
DefaultFirstGateDelaySec == 18     \* firstGateDelaySec ?? 18
MaxStepMs == 50                    \* Math.min(..., 0.05) in loop
ForwardSpeedBase == 150            \* forwardSpeed
ReviveCoins == 50                  \* coinsBalance = 50 on revive
DefaultMinInterstitialSec == 70    \* minInterstitialIntervalSec ?? 70

(* Units.  Times are in milliseconds, whatever the name of the field says;
   balances in thousandths of an obol; the distance in thousandths of a
   pixel; positions and radii in quarter pixels, which the steps of 25 and
   50 ms at 150, 340 and 450 pixels per second keep whole; the multipliers
   and chances of upgrades in thousandths. *)
Q == 4

\* the length travelled at speed pixels per second in dt milliseconds
Step(speed, dt) == (speed * dt * Q) \div 1000

Abs(a) == IF a >= 0 THEN a ELSE -a

Max(a, b) == IF a >= b THEN a ELSE b

Min(a, b) == IF a <= b THEN a ELSE b

clamp(value, min, max) == Max(min, Min(max, value))

\* rand(min, max) = min + Math.random() * (max - min), with Math.random()
\* = u / 1000
rand(min, max, u) == min + (u * (max - min)) \div 1000

intersects(a, b) ==
    LET dx == a.x - b.x
        dy == a.y - b.y
        r == a.r + b.r
    IN dx * dx + dy * dy <= r * r

distanceSq(a, b) ==
    LET dx == a.x - b.x
        dy == a.y - b.y
    IN dx * dx + dy * dy

\* The frame lengths that the effect decay and the properties range over:
\* the clamp and half of it.
DtChoices == {MaxStepMs \div 2, MaxStepMs}

----------------------------------------------------------------------------
(* Configuration: the loaded GameConfig.  The variable economy holds
   config.economy (economy_config.json, typed by EconomyConfig) and, under
   gates, config.gates (gates.json, typed by GateConfig). *)

\* A JSON value, as far as the code tells values apart: t is "number",
\* "string", "object", "null", or "absent" for a key the object does not
\* have; v is the number.
JNumber(n) == [t |-> "number", v |-> n]
JOther(t) == [t |-> t, v |-> 0]

\* the keys of GateEffect
EffectKeys ==
    {"collisionPenaltyMultiplier", "pickupMultiplier", "speedMultiplier",
     "drainMultiplier"}

\* a GateEffect: the keys it does not name are absent
GateEffect(named) ==
    [key \in EffectKeys |->
        IF key \in DOMAIN named THEN named[key] ELSE JOther("absent")]

\* a GateConfig; durationSec, like every time of the model, in milliseconds
Gate(id, permanent, durationSec, effects) ==
    [id |-> id, permanent |-> permanent, durationSec |-> durationSec,
     effects |-> effects]

\* Gates of the four kinds the code tells apart: temporary with its own
\* duration, temporary with the default duration (durationSec 0) and a value
\* that is not a number, permanent DEBT, and permanent with another id.
\* Multipliers are whole numbers, whose products are exact in the code too.
GateHaste ==
    Gate("HASTE", FALSE, 100,
         GateEffect([speedMultiplier |-> JNumber(2), drainMultiplier |-> JNumber(3)]))
GatePlenty ==
    Gate("PLENTY", FALSE, 0,
         GateEffect([pickupMultiplier |-> JNumber(2), drainMultiplier |-> JNumber(2),
                     collisionPenaltyMultiplier |-> JOther("string")]))
GateDebt ==
    Gate("DEBT", TRUE, 0,
         GateEffect([pickupMultiplier |-> JNumber(3), drainMultiplier |-> JNumber(2)]))
GateCurse ==
    Gate("CURSE", TRUE, 0,
         GateEffect([collisionPenaltyMultiplier |-> JNumber(2)]))

\* config.obstacles (ObstacleConfig): radius in pixels
ObstacleTemplates ==
    << [radius |-> 20, damage |-> 1], [radius |-> 30, damage |-> 3] >>

\* config.upgrades (UpgradeBranchConfig): each level's cost and
\* UpgradeEffect, with the keys it names
UpgradeBranches ==
    << [id |-> "defense",
        levels |-> << [cost |-> 10,
                       effect |-> [shieldStart |-> 1500, obstacleDamageMult |-> 500]],
                      [cost |-> 20,
                       effect |-> [shieldStart |-> 2000, shieldRegenSec |-> 2000,
                                   obstacleDamageMult |-> 50]] >>],
       [id |-> "farm",
        levels |-> << [cost |-> 10,
                       effect |-> [soulValueMult |-> 2000, doubleSoulChance |-> 1000]],
                      [cost |-> 20,
                       effect |-> [soulValueMult |-> 2000, doubleSoulChance |-> 500,
                                   magnetMult |-> 2000]] >>],
       [id |-> "skills",
        levels |-> << [cost |-> 10,
                       effect |-> [freeBribeEverySec |-> 1000,
                                   bribeSplashRadius |-> 200 * Q,
                                   bribeCooldownMult |-> 600]],
                      [cost |-> 20,
                       effect |-> [bribeCooldownMult |-> 100]] >>] >>

\* A steep drain, so that a run lasts a few frames.
FastEconomy ==
    [ startCoins |-> 100,
      coinDrainTiers |-> << [fromSec |-> 0, rate |-> 1000] >>,
      pickupValue |-> 10,
      collisionPenalty |-> 5,
      bribeShotCost |-> 1,
      freeBribeChance |-> 0,
      firstGateDelaySec |-> JOther("absent"),
      gateIntervalSec |-> 1000,
      gateDurationSec |-> 50,
      minInterstitialIntervalSec |-> JOther("absent"),
      gates |-> << GateHaste, GatePlenty, GateDebt, GateCurse >>,
      obstacles |-> ObstacleTemplates,
      upgrades |-> UpgradeBranches ]

\* The world scenario: 400 obols drained at 100 per second, which outruns
\* what pickups bring in, and a first gate pair at once.
WorldEconomy ==
    [FastEconomy EXCEPT !.startCoins = 400,
                        !.coinDrainTiers = << [fromSec |-> 0, rate |-> 100] >>,
                        !.firstGateDelaySec = JNumber(0),
                        !.gateIntervalSec = 2000,
                        !.gateDurationSec = 2000]

\* The revive scenario: 60 obols drained at 20 per second, so that the 50
\* obols of a revive outlast its invulnerability; an obstacle costs 40; no
\* gate pair within a run and no interstitial within the hour.
ReviveEconomy ==
    [WorldEconomy EXCEPT !.startCoins = 60,
                         !.coinDrainTiers = << [fromSec |-> 0, rate |-> 20] >>,
                         !.collisionPenalty = 40,
                         !.minInterstitialIntervalSec = JNumber(3600),
                         !.firstGateDelaySec = JNumber(100 * 1000)]

\* The scenario of several gate pairs in one run: 1200 obols drained at 100
\* per second, a pair every 2 s.
PairsEconomy == [WorldEconomy EXCEPT !.startCoins = 1200]

\* The bribe scenario: a shot costs 30 of the 150 obols and is free with
\* probability 1/4; no gate pair within a run.
BribeEconomy ==
    [WorldEconomy EXCEPT !.startCoins = 150,
                         !.bribeShotCost = 30,
                         !.freeBribeChance = 250,
                         !.firstGateDelaySec = JNumber(100 * 1000)]

\* The splash scenario: a shot costs 30 of the 260 obols and is never free
\* by chance; no gate pair within a run.
SplashEconomy ==
    [BribeEconomy EXCEPT !.startCoins = 260, !.freeBribeChance = 0]

\* A permanent gate that is not DEBT and doubles the speed: applyGate adds
\* its effect each time it is chosen.
GateRush ==
    Gate("RUSH", TRUE, 0, GateEffect([speedMultiplier |-> JNumber(2)]))

\* The scenario of stacked speed: 1200 obols drained at 100 per second, a
\* pair every 2 s with RUSH on the left.
RushEconomy ==
    [PairsEconomy EXCEPT !.gates = << GateRush, GatePlenty >>]

\* The end-to-end scenario of the specification: 100 obols, 5 per second.
E2EEconomy ==
    [FastEconomy EXCEPT !.coinDrainTiers = << [fromSec |-> 0, rate |-> 5] >>]

----------------------------------------------------------------------------
(* SaveService *)

\* the upgrade branches of config.upgrades
Branches == {"defense", "farm", "skills"}

\* SaveService.defaults
defaults ==
    [bestScore |-> 0, walletCoins |-> 0, upgrades |-> [b \in Branches |-> 0]]

\* The item under SAVE_STORAGE_KEY as JSON.parse sees it.  form is "missing"
\* (getItem gives null or ""), "garbage" (JSON.parse throws), "null",
\* "scalar" (a number, string or boolean) or "object"; the three fields are
\* those of the object, the levels those of its upgrades object.
Item(form, best, wallet, upgradesType, levels) ==
    [form |-> form, bestScore |-> best, walletCoins |-> wallet,
     upgrades |-> [t |-> upgradesType, v |-> levels]]

\* SaveService.load on an item.  A field of the result is the JSON value the
\* code returns for it; of the keys of upgrades, those of the branches.
loadItem(item) ==
    LET dflt == [bestScore |-> JNumber(defaults.bestScore),
                 walletCoins |-> JNumber(defaults.walletCoins),
                 upgrades |-> [b \in Branches |-> JNumber(defaults.upgrades[b])]]
        \* parsed.field ?? defaults.field
        orDefault(v, d) == IF v.t \in {"absent", "null"} THEN d ELSE v
        \* {...defaults.upgrades, ...(parsed.upgrades ?? {})}: the own keys
        \* of an object replace the defaults; a number has none, and those
        \* of a string are indices
        merged == IF item.upgrades.t = "object"
                  THEN [b \in Branches |->
                           IF item.upgrades.v[b].t = "absent"
                           THEN dflt.upgrades[b] ELSE item.upgrades.v[b]]
                  ELSE dflt.upgrades
    IN CASE item.form \in {"missing", "garbage"} -> dflt
         \* parsed.bestScore throws a TypeError, which the catch turns
         \* into the defaults
         [] item.form = "null" -> dflt
         \* a property of a number, string or boolean is undefined
         [] item.form = "scalar" -> dflt
         [] item.form = "object" ->
               [bestScore |-> orDefault(item.bestScore, dflt.bestScore),
                walletCoins |-> orDefault(item.walletCoins, dflt.walletCoins),
                upgrades |-> merged]

\* localStorage without an item under SAVE_STORAGE_KEY
NoPayload ==
    [present |-> FALSE, bestScore |-> 0, walletCoins |-> 0,
     upgrades |-> [b \in Branches |-> 0]]

\* JSON.stringify(data), as the item under SAVE_STORAGE_KEY
Payload(data) ==
    [present |-> TRUE, bestScore |-> data.bestScore,
     walletCoins |-> data.walletCoins, upgrades |-> data.upgrades]

\* the item that JSON.parse makes of a payload written by store
ItemOf(raw) ==
    IF ~raw.present
    THEN Item("missing", JOther("absent"), JOther("absent"), "absent",
              [b \in Branches |-> JOther("absent")])
    ELSE Item("object", JNumber(raw.bestScore), JNumber(raw.walletCoins),
              "object", [b \in Branches |-> JNumber(raw.upgrades[b])])

\* SaveService.load on a payload written by store, or none: all its values
\* are numbers
load(raw) ==
    LET data == loadItem(ItemOf(raw))
    IN [bestScore |-> data.bestScore.v, walletCoins |-> data.walletCoins.v,
        upgrades |-> [b \in Branches |-> data.upgrades[b].v]]

\* SaveService.store
store(c, data) == [c EXCEPT !.ls = Payload(data)]

\* SaveService.storeWithCloud, up to the resolution of the cloud promise: the
\* local write is synchronous, the cloud copy is not part of this model.
storeWithCloud(c, data) == store(c, data)

----------------------------------------------------------------------------
(* Math.random.  A draw holds what the calls of one handler return, each in
   thousandths: the obstacle interval, template and x, the coin interval and
   x, the double-soul roll (one for all coins of a frame), the free-bribe
   roll; and the two gates that the random sort of pickTwoGates puts first,
   as places in config.gates. *)

\* Obstacles and coins spawn at the left edge and as seldom as they can,
\* nothing is doubled or free.
DefaultDraw ==
    [obstacleInterval |-> 999, template |-> 0, obstacleX |-> 0,
     coinInterval |-> 999, coinX |-> 0,
     gatePair |-> << 1, 2 >>, doubleRoll |-> 999, freeRoll |-> 999]

----------------------------------------------------------------------------
(* Game: helpers *)

\* [...tiers].sort((a, b) => a.fromSec - b.fromSec), a stable insertion sort
RECURSIVE InsertTier(_, _)
InsertTier(t, sorted) ==
    IF sorted = << >> THEN << t >>
    ELSE IF t.fromSec < Head(sorted).fromSec THEN << t >> \o sorted
    ELSE << Head(sorted) >> \o InsertTier(t, Tail(sorted))

RECURSIVE SortTiers(_)
SortTiers(tiers) ==
    IF tiers = << >> THEN << >>
    ELSE InsertTier(tiers[Len(tiers)], SortTiers(SubSeq(tiers, 1, Len(tiers) - 1)))

RECURSIVE LastTierRate(_, _, _)
LastTierRate(tiers, elapsedMs, current) ==
    IF tiers = << >> THEN current
    ELSE LastTierRate(Tail(tiers), elapsedMs,
                      IF elapsedMs >= Head(tiers).fromSec * 1000
                      THEN Head(tiers).rate ELSE current)

\* Faulty variant of currentDrainRate: the tiers are taken as configured
currentDrainRate_Unsorted(g, eco) ==
    LET tiers == eco.coinDrainTiers
    IN LastTierRate(tiers, g.elapsedMs,
                    IF tiers = << >> THEN 0 ELSE tiers[1].rate)

\* Game.currentDrainRate, in obols per second
currentDrainRate(g, eco) ==
    LET tiers == SortTiers(eco.coinDrainTiers)
    IN LastTierRate(tiers, g.elapsedMs,
                    IF tiers = << >> THEN 0 ELSE tiers[1].rate)

\* Faulty variant of effectMultiplier: the values are added up
effectMultiplier_Additive(g, key) ==
    LET RECURSIVE reduce(_, _)
        reduce(effects, acc) ==
            IF effects = << >> THEN acc
            ELSE LET value == Head(effects).effect[key]
                 IN reduce(Tail(effects),
                           IF value.t # "number" THEN acc ELSE acc + value.v - 1)
    IN reduce(g.effects, 1)

\* Game.effectMultiplier: this.effects.reduce(..., 1), from the left
effectMultiplier(g, key) ==
    LET RECURSIVE reduce(_, _)
        reduce(effects, acc) ==
            IF effects = << >> THEN acc
            ELSE LET value == Head(effects).effect[key]
                 IN reduce(Tail(effects),
                           IF value.t # "number" THEN acc ELSE acc * value.v)
    IN reduce(g.effects, 1)

\* Game.forwardSpeed, in pixels per second
forwardSpeed(g) == ForwardSpeedBase * effectMultiplier(g, "speedMultiplier")

\* Game.firstGateDelaySec
firstGateDelaySec(eco) ==
    IF eco.firstGateDelaySec.t \in {"absent", "null"}
    THEN DefaultFirstGateDelaySec * 1000
    ELSE eco.firstGateDelaySec.v

\* Game.currentLevelEffect
currentLevelEffect(g, eco, branchId) ==
    LET found == SelectSeq(eco.upgrades, LAMBDA item : item.id = branchId)
    IN IF found = << >> THEN << >>
       ELSE LET branch == found[1]
                level == g.saveData.upgrades[branch.id]
            IN IF level <= 0 THEN << >>
               ELSE branch.levels[Min(level, Len(branch.levels))].effect

\* effect.key ?? fallback
OrElse(effect, key, fallback) ==
    IF key \in DOMAIN effect THEN effect[key] ELSE fallback

\* Faulty variant of applyMetaUpgradesForRun: the configured values as they
\* are, without floors or ceilings
applyMetaUpgradesForRun_Unclamped(g, eco) ==
    LET defense == currentLevelEffect(g, eco, "defense")
        farm == currentLevelEffect(g, eco, "farm")
        skills == currentLevelEffect(g, eco, "skills")
        shieldMax == OrElse(defense, "shieldStart", 0) \div 1000
        shieldRegenSec == OrElse(defense, "shieldRegenSec", 0)
        freeBribeEverySec == OrElse(skills, "freeBribeEverySec", 0)
    IN [g EXCEPT
          !.shieldMax = shieldMax,
          !.shieldCount = shieldMax,
          !.shieldRegenSec = shieldRegenSec,
          !.shieldRegenTimer = shieldRegenSec,
          !.obstacleDamageMult = OrElse(defense, "obstacleDamageMult", 1000),
          !.magnetMult = OrElse(farm, "magnetMult", 1000),
          !.soulValueMult = OrElse(farm, "soulValueMult", 1000),
          !.doubleSoulChance = OrElse(farm, "doubleSoulChance", 0),
          !.bribeCooldownMult = OrElse(skills, "bribeCooldownMult", 1000),
          !.freeBribeEverySec = freeBribeEverySec,
          !.bribeSplashRadius = OrElse(skills, "bribeSplashRadius", 0),
          !.bribeCooldownLeftSec = 0,
          !.freeBribeReady = FALSE,
          !.freeBribeTimerSec = freeBribeEverySec]

\* Game.applyMetaUpgradesForRun
applyMetaUpgradesForRun(g, eco) ==
    LET defense == currentLevelEffect(g, eco, "defense")
        farm == currentLevelEffect(g, eco, "farm")
        skills == currentLevelEffect(g, eco, "skills")
        shieldMax == Max(0, OrElse(defense, "shieldStart", 0) \div 1000)
        shieldRegenSec == Max(0, OrElse(defense, "shieldRegenSec", 0))
        freeBribeEverySec == Max(0, OrElse(skills, "freeBribeEverySec", 0))
    IN [g EXCEPT
          !.shieldMax = shieldMax,
          !.shieldCount = shieldMax,
          !.shieldRegenSec = shieldRegenSec,
          !.shieldRegenTimer = shieldRegenSec,
          !.obstacleDamageMult = Max(100, OrElse(defense, "obstacleDamageMult", 1000)),
          !.magnetMult = Max(1000, OrElse(farm, "magnetMult", 1000)),
          !.soulValueMult = Max(100, OrElse(farm, "soulValueMult", 1000)),
          !.doubleSoulChance = clamp(OrElse(farm, "doubleSoulChance", 0), 0, 1000),
          !.bribeCooldownMult = Max(200, OrElse(skills, "bribeCooldownMult", 1000)),
          !.freeBribeEverySec = freeBribeEverySec,
          !.bribeSplashRadius = Max(0, OrElse(skills, "bribeSplashRadius", 0)),
          !.bribeCooldownLeftSec = 0,
          !.freeBribeReady = FALSE,
          !.freeBribeTimerSec = freeBribeEverySec]

\* Faulty variant of shouldShowInterstitialOnRestart: no minimum interval
shouldShowInterstitialOnRestart_NoInterval(g, eco, now) ==
    ~(g.deathCount <= 0 \/ g.deathCount % 2 # 0)

\* Game.shouldShowInterstitialOnRestart
shouldShowInterstitialOnRestart(g, eco, now) ==
    IF g.deathCount <= 0 \/ g.deathCount % 2 # 0 THEN FALSE
    ELSE LET minIntervalSec ==
                 IF eco.minInterstitialIntervalSec.t \in {"absent", "null"}
                 THEN DefaultMinInterstitialSec
                 ELSE eco.minInterstitialIntervalSec.v
             elapsedMs == now * 1000 - g.lastInterstitialAtMs
         IN elapsedMs >= minIntervalSec * 1000

----------------------------------------------------------------------------
(* Game: run start, run end *)

\* Faulty variant of reset: a new run forgets the deaths so far
reset_ForgetsDeaths(g, eco) ==
    [g EXCEPT !.elapsedMs = 0,
              !.distance = 0,
              !.coinsBalance = eco.startCoins * 1000,
              !.paused = TRUE,
              !.manualPaused = FALSE,
              !.pausedByUser = FALSE,
              !.gameOver = FALSE,
              !.reviveInvulnMs = 0,
              !.gameOverBaseScore = 0,
              !.gameOverScoreMultiplier = 1,
              !.soulsCollected = 0,
              !.sessionEarningsBase = 0,
              !.shieldMax = 0,
              !.shieldCount = 0,
              !.shieldRegenSec = 0,
              !.shieldRegenTimer = 0,
              !.obstacleDamageMult = 1000,
              !.magnetMult = 1000,
              !.soulValueMult = 1000,
              !.doubleSoulChance = 0,
              !.bribeCooldownMult = 1000,
              !.freeBribeEverySec = 0,
              !.bribeSplashRadius = 0,
              !.bribeCooldownLeftSec = 0,
              !.freeBribeTimerSec = 0,
              !.freeBribeReady = FALSE,
              !.obstacles = << >>,
              !.coins = << >>,
              !.projectiles = << >>,
              !.gates = << >>,
              !.effects = << >>,
              !.gateSpawnTimer = firstGateDelaySec(eco),
              !.modalHidden = TRUE,
              !.muted = FALSE,
              !.deathCount = 0]

\* Game.reset.  It leaves obstacleSpawnTimer, coinSpawnTimer, player.x and
\* keys as they are.
\* Faulty variant of reset: permanent effects outlive the run
reset_KeepsPermanent(g, eco) ==
    [reset_ForgetsDeaths(g, eco) EXCEPT
        !.deathCount = g.deathCount,
        !.effects = SelectSeq(g.effects, LAMBDA e : e.permanent)]

reset(g, eco) ==
    [g EXCEPT !.elapsedMs = 0,
              !.distance = 0,
              !.coinsBalance = eco.startCoins * 1000,
              !.paused = TRUE,
              !.manualPaused = FALSE,
              !.pausedByUser = FALSE,
              !.gameOver = FALSE,
              !.reviveInvulnMs = 0,
              !.gameOverBaseScore = 0,
              !.gameOverScoreMultiplier = 1,
              !.soulsCollected = 0,
              !.sessionEarningsBase = 0,
              !.shieldMax = 0,
              !.shieldCount = 0,
              !.shieldRegenSec = 0,
              !.shieldRegenTimer = 0,
              !.obstacleDamageMult = 1000,
              !.magnetMult = 1000,
              !.soulValueMult = 1000,
              !.doubleSoulChance = 0,
              !.bribeCooldownMult = 1000,
              !.freeBribeEverySec = 0,
              !.bribeSplashRadius = 0,
              !.bribeCooldownLeftSec = 0,
              !.freeBribeTimerSec = 0,
              !.freeBribeReady = FALSE,
              !.obstacles = << >>,
              !.coins = << >>,
              !.projectiles = << >>,
              !.gates = << >>,
              !.effects = << >>,
              !.gateSpawnTimer = firstGateDelaySec(eco),
              !.modalHidden = TRUE,
              !.muted = FALSE]

\* Game.startNewRun (runsStarted counts its calls; the code keeps no such count)
startNewRun(g, eco) ==
    applyMetaUpgradesForRun(
        [reset(g, eco) EXCEPT !.menuHidden = TRUE,
                              !.runsStarted = @ + 1,
                              !.runActive = TRUE,
                              !.paused = FALSE,
                              !.manualPaused = FALSE,
                              !.pausedByUser = FALSE,
                              !.muted = FALSE],
        eco)

\* Faulty variant of triggerGameOver: the best score becomes the score of
\* the run that ended, whatever it was before
triggerGameOver_OverwritesBest(c) ==
    LET g == c.g
        earnings == Max(0, (g.distance \div 10000) + g.soulsCollected
                           + (Max(0, g.coinsBalance) \div 10000))
        baseScore == g.distance \div 1000
        wallet == g.saveData.walletCoins + earnings
        g1 == [g EXCEPT !.sessionEarningsBase = earnings,
                        !.saveData = [@ EXCEPT !.bestScore = baseScore, !.walletCoins = wallet],
                        !.gameOver = TRUE,
                        !.paused = TRUE,
                        !.pausedByUser = FALSE,
                        !.runActive = FALSE,
                        !.coinsBalance = 0,
                        !.deathCount = @ + 1,
                        !.gameOverBaseScore = baseScore,
                        !.gameOverScoreMultiplier = 1,
                        !.x2Disabled = FALSE,
                        !.modalHidden = FALSE,
                        !.menuHidden = FALSE,
                        !.muted = TRUE]
    IN storeWithCloud([c EXCEPT !.g = g1], g1.saveData)

\* Game.triggerGameOver
triggerGameOver(c) ==
    LET g == c.g
        earnings == Max(0, (g.distance \div 10000) + g.soulsCollected
                           + (Max(0, g.coinsBalance) \div 10000))
        baseScore == g.distance \div 1000
        wallet == g.saveData.walletCoins + earnings
        best == IF baseScore > g.saveData.bestScore
                THEN baseScore ELSE g.saveData.bestScore
        g1 == [g EXCEPT !.sessionEarningsBase = earnings,
                        !.saveData = [@ EXCEPT !.bestScore = best, !.walletCoins = wallet],
                        !.gameOver = TRUE,
                        !.paused = TRUE,
                        !.pausedByUser = FALSE,
                        !.runActive = FALSE,
                        !.coinsBalance = 0,
                        !.deathCount = @ + 1,
                        !.gameOverBaseScore = baseScore,
                        !.gameOverScoreMultiplier = 1,
                        !.x2Disabled = FALSE,
                        !.modalHidden = FALSE,
                        !.menuHidden = FALSE,
                        !.muted = TRUE]
    IN storeWithCloud([c EXCEPT !.g = g1], g1.saveData)

\* Game.applyGate
applyGate(g, eco, gate) ==
    IF /\ gate.permanent /\ gate.id = "DEBT"
       /\ \E i \in 1..Len(g.effects) :
             g.effects[i].permanent /\ g.effects[i].gateId = "DEBT"
    THEN g
    ELSE LET duration == IF gate.permanent THEN 0
                         ELSE IF gate.durationSec # 0 THEN gate.durationSec
                         ELSE eco.gateDurationSec
         IN [g EXCEPT !.effects =
                Append(@, [gateId |-> gate.id, effect |-> gate.effects,
                           permanent |-> gate.permanent,
                           remainingMs |-> duration])]

\* Faulty variant of updateEffects: an effect at zero is kept
updateEffects_KeepsAtZero(g, dt) ==
    LET aged == [i \in 1..Len(g.effects) |->
                    IF g.effects[i].permanent THEN g.effects[i]
                    ELSE [g.effects[i] EXCEPT !.remainingMs = @ - dt]]
    IN [g EXCEPT !.effects =
           SelectSeq(aged, LAMBDA e : e.permanent \/ e.remainingMs >= 0)]

\* Game.updateEffects
updateEffects(g, dt) ==
    LET aged == [i \in 1..Len(g.effects) |->
                    IF g.effects[i].permanent THEN g.effects[i]
                    ELSE [g.effects[i] EXCEPT !.remainingMs = @ - dt]]
    IN [g EXCEPT !.effects =
           SelectSeq(aged, LAMBDA e : e.permanent \/ e.remainingMs > 0)]

\* the guard of the simulation step in Game.loop
Simulating(g) == ~g.paused /\ ~g.gameOver /\ g.runActive

\* Game.spawnAndMove
spawnAndMove(c, eco, dt) ==
    LET g == c.g
        scrollSpeed == forwardSpeed(g)
        obstacleDue == g.obstacleSpawnTimer - dt <= 0
        template == eco.obstacles[(c.r.template * Len(eco.obstacles)) \div 1000 + 1]
        obstacles ==
            IF obstacleDue
            THEN Append(g.obstacles,
                        [x |-> rand(template.radius * Q,
                                    (WIDTH - template.radius) * Q, c.r.obstacleX),
                         y |-> -40 * Q, r |-> template.radius * Q,
                         damage |-> template.damage])
            ELSE g.obstacles
        coinDue == g.coinSpawnTimer - dt <= 0
        coins ==
            IF coinDue
            THEN Append(g.coins,
                        [x |-> rand(24 * Q, (WIDTH - 24) * Q, c.r.coinX),
                         y |-> -20 * Q, r |-> 10 * Q,
                         value |-> eco.pickupValue])
            ELSE g.coins
        gateDue == g.gateSpawnTimer - dt <= 0
        gates ==
            IF gateDue
            THEN Append(g.gates,
                        [y |-> -60 * Q, left |-> eco.gates[c.r.gatePair[1]],
                         right |-> eco.gates[c.r.gatePair[2]],
                         width |-> 170 * Q, chosen |-> FALSE])
            ELSE g.gates
        down(list) ==
            [i \in 1..Len(list) |->
                [list[i] EXCEPT !.y = @ + Step(scrollSpeed, dt)]]
        up(list) ==
            [i \in 1..Len(list) |->
                [list[i] EXCEPT !.y = @ - Step(list[i].speed, dt)]]
    IN [g EXCEPT
          !.obstacleSpawnTimer =
              IF obstacleDue THEN rand(800, 1400, c.r.obstacleInterval) ELSE @ - dt,
          !.coinSpawnTimer =
              IF coinDue THEN rand(450, 900, c.r.coinInterval) ELSE @ - dt,
          !.gateSpawnTimer =
              IF gateDue THEN eco.gateIntervalSec ELSE @ - dt,
          !.obstacles =
              SelectSeq(down(obstacles), LAMBDA e : e.y < (HEIGHT + 40) * Q),
          !.coins =
              SelectSeq(down(coins), LAMBDA e : e.y < (HEIGHT + 30) * Q),
          !.gates =
              SelectSeq(down(gates), LAMBDA e : e.y < (HEIGHT + 80) * Q),
          !.projectiles =
              SelectSeq(up(g.projectiles), LAMBDA e : e.y > -20 * Q)]

\* Game.gateRects
gateRects(gate) ==
    LET center == (WIDTH \div 2) * Q
    IN [leftX |-> center - GATE_GAP * Q - gate.width,
        rightX |-> center + GATE_GAP * Q,
        width |-> gate.width]

\* handleCollisions: const boatBody
boatBody(g) == [x |-> g.player.x, y |-> g.player.y, r |-> (g.player.w * 45) \div 100]

\* handleCollisions, this.coins.filter: whether the coin is taken
coinTaken(g, coin) ==
    LET magnetRadius == (BASE_MAGNET_RADIUS * Q * g.magnetMult) \div 1000
        inMagnet == distanceSq(boatBody(g), coin) <= magnetRadius * magnetRadius
    IN inMagnet \/ intersects(boatBody(g), coin)

\* Faulty variant of collectCoin: a doubled coin counts once
collectCoin_DoubleCountsOnce(g, coin, doubleRoll) ==
    LET once == coin.value * g.soulValueMult * effectMultiplier(g, "pickupMultiplier")
        double == doubleRoll < g.doubleSoulChance
    IN [g EXCEPT !.soulsCollected = @ + 1,
                 !.coinsBalance = @ + (IF double THEN once + once ELSE once)]

\* handleCollisions, this.coins.filter: the body for a coin that is taken
collectCoin(g, coin, doubleRoll) ==
    LET once == coin.value * g.soulValueMult * effectMultiplier(g, "pickupMultiplier")
        double == doubleRoll < g.doubleSoulChance
    IN [g EXCEPT !.soulsCollected = @ + (IF double THEN 2 ELSE 1),
                 !.coinsBalance = @ + (IF double THEN once + once ELSE once)]

\* Faulty variant of hitObstacle: a shield does not spare the balance
hitObstacle_ShieldAndPenalty(g, eco, obstacle) ==
    LET penalty == eco.collisionPenalty * obstacle.damage
                   * effectMultiplier(g, "collisionPenaltyMultiplier")
                   * g.obstacleDamageMult
    IN IF g.reviveInvulnMs <= 0
       THEN IF g.shieldCount > 0
            THEN [g EXCEPT !.shieldCount = @ - 1,
                           !.shieldRegenTimer = g.shieldRegenSec,
                           !.coinsBalance = @ - penalty]
            ELSE [g EXCEPT !.coinsBalance = @ - penalty]
       ELSE g

\* Faulty variant of hitObstacle: no invulnerability after a revive
hitObstacle_NoInvulnerability(g, eco, obstacle) ==
    IF g.shieldCount > 0
    THEN [g EXCEPT !.shieldCount = @ - 1,
                   !.shieldRegenTimer = g.shieldRegenSec]
    ELSE LET penalty == eco.collisionPenalty * obstacle.damage
                        * effectMultiplier(g, "collisionPenaltyMultiplier")
                        * g.obstacleDamageMult
         IN [g EXCEPT !.coinsBalance = @ - penalty]

\* handleCollisions, this.obstacles.filter: the body for an obstacle that
\* intersects the boat
hitObstacle(g, eco, obstacle) ==
    IF g.reviveInvulnMs <= 0
    THEN IF g.shieldCount > 0
         THEN [g EXCEPT !.shieldCount = @ - 1,
                        !.shieldRegenTimer = g.shieldRegenSec]
         ELSE LET penalty == eco.collisionPenalty * obstacle.damage
                             * effectMultiplier(g, "collisionPenaltyMultiplier")
                             * g.obstacleDamageMult
              IN [g EXCEPT !.coinsBalance = @ - penalty]
    ELSE g

\* Faulty variant of gateSide: at equal distances the right option
gateSide_TieRight(g, gate) ==
    LET rects == gateRects(gate)
        leftCenter == rects.leftX + rects.width \div 2
        rightCenter == rects.rightX + rects.width \div 2
        inLeftRect == g.player.x >= rects.leftX /\ g.player.x <= rects.leftX + rects.width
        inRightRect == g.player.x >= rects.rightX /\ g.player.x <= rects.rightX + rects.width
        distanceLeft == Abs(g.player.x - leftCenter)
        distanceRight == Abs(g.player.x - rightCenter)
    IN IF inLeftRect THEN "left"
       ELSE IF inRightRect THEN "right"
       ELSE IF distanceLeft < distanceRight THEN "left" ELSE "right"

\* handleCollisions, for (const gate of this.gates): the side applied
gateSide(g, gate) ==
    LET rects == gateRects(gate)
        leftCenter == rects.leftX + rects.width \div 2
        rightCenter == rects.rightX + rects.width \div 2
        inLeftRect == g.player.x >= rects.leftX /\ g.player.x <= rects.leftX + rects.width
        inRightRect == g.player.x >= rects.rightX /\ g.player.x <= rects.rightX + rects.width
        distanceLeft == Abs(g.player.x - leftCenter)
        distanceRight == Abs(g.player.x - rightCenter)
    IN IF inLeftRect THEN "left"
       ELSE IF inRightRect THEN "right"
       ELSE IF distanceLeft <= distanceRight THEN "left" ELSE "right"

\* Faulty variant of gateReached: a chosen pair is resolved again
gateReached_IgnoresChosen(g, gate) ==
    ~(Abs(gate.y - g.player.y) > GATE_HEIGHT * Q)

\* handleCollisions, for (const gate of this.gates): whether the gate is
\* resolved now
gateReached(g, gate) ==
    ~gate.chosen /\ ~(Abs(gate.y - g.player.y) > GATE_HEIGHT * Q)

\* Faulty variant of splashed: a splash takes every obstacle
splashed_WholeWorld(g, obstacles, hit) ==
    IF g.bribeSplashRadius > 0 THEN << >> ELSE obstacles

\* handleCollisions, this.projectiles.filter: the obstacles that the splash
\* around the obstacle hit leaves
splashed(g, obstacles, hit) ==
    LET splashSq == g.bribeSplashRadius * g.bribeSplashRadius
    IN IF g.bribeSplashRadius > 0
       THEN SelectSeq(obstacles, LAMBDA o : distanceSq(o, hit) > splashSq)
       ELSE obstacles

\* Game.handleCollisions
handleCollisions(c, eco) ==
    LET RECURSIVE coinsFrom(_, _, _)
        coinsFrom(g, coins, kept) ==
            IF coins = << >> THEN [g EXCEPT !.coins = kept]
            ELSE IF coinTaken(g, Head(coins))
                 THEN coinsFrom(collectCoin(g, Head(coins), c.r.doubleRoll),
                                Tail(coins), kept)
                 ELSE coinsFrom(g, Tail(coins), Append(kept, Head(coins)))
        RECURSIVE obstaclesFrom(_, _, _)
        obstaclesFrom(g, obstacles, kept) ==
            IF obstacles = << >> THEN [g EXCEPT !.obstacles = kept]
            ELSE IF intersects(boatBody(g), Head(obstacles))
                 THEN obstaclesFrom(hitObstacle(g, eco, Head(obstacles)),
                                    Tail(obstacles), kept)
                 ELSE obstaclesFrom(g, Tail(obstacles), Append(kept, Head(obstacles)))
        RECURSIVE gatesFrom(_, _)
        gatesFrom(g, i) ==
            IF i > Len(g.gates) THEN g
            ELSE IF gateReached(g, g.gates[i])
                 THEN LET gate == g.gates[i]
                          option == IF gateSide(g, gate) = "left"
                                    THEN gate.left ELSE gate.right
                      IN gatesFrom(applyGate([g EXCEPT !.gates[i].chosen = TRUE],
                                             eco, option),
                                   i + 1)
                 ELSE gatesFrom(g, i + 1)
        RECURSIVE projectilesFrom(_, _, _)
        projectilesFrom(g, projectiles, kept) ==
            IF projectiles = << >> THEN [g EXCEPT !.projectiles = kept]
            ELSE LET projectile == Head(projectiles)
                     targets == {i \in 1..Len(g.obstacles) :
                                    intersects(projectile, g.obstacles[i])}
                 IN IF targets = {}
                    THEN projectilesFrom(g, Tail(projectiles), Append(kept, projectile))
                    ELSE LET targetIndex == CHOOSE i \in targets :
                                                \A j \in targets : i <= j
                             hit == g.obstacles[targetIndex]
                             spliced == [i \in 1..(Len(g.obstacles) - 1) |->
                                            IF i < targetIndex THEN g.obstacles[i]
                                            ELSE g.obstacles[i + 1]]
                         IN projectilesFrom([g EXCEPT !.obstacles =
                                                          splashed(g, spliced, hit)],
                                            Tail(projectiles), kept)
        g1 == coinsFrom(c.g, c.g.coins, << >>)
        g2 == obstaclesFrom(g1, g1.obstacles, << >>)
        g3 == gatesFrom(g2, 1)
    IN projectilesFrom(g3, g3.projectiles, << >>)

\* Faulty variant of fireBribe: the cooldown without the upgrade multiplier
fireBribe_BaseCooldown(c, eco) ==
    LET g == c.g
        randomFreeShot == c.r.freeRoll < eco.freeBribeChance
        timerFreeShot == g.freeBribeReady
        freeShot == randomFreeShot \/ timerFreeShot
        g1 == IF timerFreeShot
              THEN [g EXCEPT !.freeBribeReady = FALSE,
                             !.freeBribeTimerSec = g.freeBribeEverySec]
              ELSE g
        g2 == IF ~freeShot
              THEN [g1 EXCEPT !.coinsBalance = @ - eco.bribeShotCost * 1000]
              ELSE g1
    IN IF g.paused \/ g.gameOver \/ ~g.runActive THEN c
       ELSE IF g.bribeCooldownLeftSec > 0 THEN c
       ELSE IF ~freeShot /\ g.coinsBalance < eco.bribeShotCost * 1000 THEN c
       ELSE [c EXCEPT !.g =
                [g2 EXCEPT
                    !.bribeCooldownLeftSec = BASE_BRIBE_COOLDOWN_SEC,
                    !.projectiles =
                        Append(@, [x |-> g.player.x, y |-> g.player.y - 20 * Q,
                                   r |-> 8 * Q, speed |-> 450])]]

\* Faulty variant of fireBribe: an attempt during the cooldown restarts it
fireBribe_RestartsCooldown(c, eco) ==
    LET g == c.g
        randomFreeShot == c.r.freeRoll < eco.freeBribeChance
        timerFreeShot == g.freeBribeReady
        freeShot == randomFreeShot \/ timerFreeShot
        cooldown == (BASE_BRIBE_COOLDOWN_SEC * g.bribeCooldownMult) \div 1000
        g1 == IF timerFreeShot
              THEN [g EXCEPT !.freeBribeReady = FALSE,
                             !.freeBribeTimerSec = g.freeBribeEverySec]
              ELSE g
        g2 == IF ~freeShot
              THEN [g1 EXCEPT !.coinsBalance = @ - eco.bribeShotCost * 1000]
              ELSE g1
    IN IF g.paused \/ g.gameOver \/ ~g.runActive THEN c
       ELSE IF g.bribeCooldownLeftSec > 0
            THEN [c EXCEPT !.g.bribeCooldownLeftSec = cooldown]
       ELSE IF ~freeShot /\ g.coinsBalance < eco.bribeShotCost * 1000 THEN c
       ELSE [c EXCEPT !.g =
                [g2 EXCEPT
                    !.bribeCooldownLeftSec = cooldown,
                    !.projectiles =
                        Append(@, [x |-> g.player.x, y |-> g.player.y - 20 * Q,
                                   r |-> 8 * Q, speed |-> 450])]]

\* Game.fireBribe
fireBribe(c, eco) ==
    LET g == c.g
        randomFreeShot == c.r.freeRoll < eco.freeBribeChance
        timerFreeShot == g.freeBribeReady
        freeShot == randomFreeShot \/ timerFreeShot
        g1 == IF timerFreeShot
              THEN [g EXCEPT !.freeBribeReady = FALSE,
                             !.freeBribeTimerSec = g.freeBribeEverySec]
              ELSE g
        g2 == IF ~freeShot
              THEN [g1 EXCEPT !.coinsBalance = @ - eco.bribeShotCost * 1000]
              ELSE g1
    IN IF g.paused \/ g.gameOver \/ ~g.runActive THEN c
       ELSE IF g.bribeCooldownLeftSec > 0 THEN c
       ELSE IF ~freeShot /\ g.coinsBalance < eco.bribeShotCost * 1000 THEN c
       ELSE [c EXCEPT !.g =
                [g2 EXCEPT
                    !.bribeCooldownLeftSec =
                        (BASE_BRIBE_COOLDOWN_SEC * g.bribeCooldownMult) \div 1000,
                    !.projectiles =
                        Append(@, [x |-> g.player.x, y |-> g.player.y - 20 * Q,
                                   r |-> 8 * Q, speed |-> 450])]]

\* Faulty variant of updateWorld: shields are regenerated at capacity too
updateWorld_RegenAtCapacity(c, eco, dt) ==
    LET g == c.g
        g1 == [g EXCEPT !.elapsedMs = @ + dt,
                        !.distance = @ + forwardSpeed(g) * dt,
                        !.reviveInvulnMs = Max(0, @ - dt),
                        !.bribeCooldownLeftSec = Max(0, @ - dt)]
        g2 == IF g1.freeBribeEverySec > 0 /\ ~g1.freeBribeReady
              THEN [g1 EXCEPT !.freeBribeTimerSec = @ - dt,
                              !.freeBribeReady = g1.freeBribeTimerSec - dt <= 0]
              ELSE g1
        g3 == IF g2.shieldRegenSec > 0
              THEN IF g2.shieldRegenTimer - dt <= 0
                   THEN [g2 EXCEPT !.shieldCount = @ + 1,
                                   !.shieldRegenTimer = g2.shieldRegenSec]
                   ELSE [g2 EXCEPT !.shieldRegenTimer = @ - dt]
              ELSE g2
        moveDir == (IF "arrowleft" \in g.keys \/ "a" \in g.keys THEN -1 ELSE 0)
                   + (IF "arrowright" \in g.keys \/ "d" \in g.keys THEN 1 ELSE 0)
        g4 == [g3 EXCEPT !.player.x =
                  clamp(@ + moveDir * Step(g.player.speed, dt),
                        g.player.w \div 2, WIDTH * Q - g.player.w \div 2)]
        drain == currentDrainRate(g4, eco) * effectMultiplier(g4, "drainMultiplier") * dt
        g5 == [g4 EXCEPT !.coinsBalance = @ - drain]
        g6 == spawnAndMove([c EXCEPT !.g = g5], eco, dt)
        g7 == handleCollisions([c EXCEPT !.g = g6], eco)
    IN [c EXCEPT !.g = updateEffects(g7, dt)]

\* Game.update(dt) up to this.updateEffects(dt)
updateWorld(c, eco, dt) ==
    LET g == c.g
        g1 == [g EXCEPT !.elapsedMs = @ + dt,
                        !.distance = @ + forwardSpeed(g) * dt,
                        !.reviveInvulnMs = Max(0, @ - dt),
                        !.bribeCooldownLeftSec = Max(0, @ - dt)]
        g2 == IF g1.freeBribeEverySec > 0 /\ ~g1.freeBribeReady
              THEN [g1 EXCEPT !.freeBribeTimerSec = @ - dt,
                              !.freeBribeReady = g1.freeBribeTimerSec - dt <= 0]
              ELSE g1
        g3 == IF g2.shieldRegenSec > 0 /\ g2.shieldCount < g2.shieldMax
              THEN IF g2.shieldRegenTimer - dt <= 0
                   THEN [g2 EXCEPT !.shieldCount = @ + 1,
                                   !.shieldRegenTimer = g2.shieldRegenSec]
                   ELSE [g2 EXCEPT !.shieldRegenTimer = @ - dt]
              ELSE g2
        moveDir == (IF "arrowleft" \in g.keys \/ "a" \in g.keys THEN -1 ELSE 0)
                   + (IF "arrowright" \in g.keys \/ "d" \in g.keys THEN 1 ELSE 0)
        g4 == [g3 EXCEPT !.player.x =
                  clamp(@ + moveDir * Step(g.player.speed, dt),
                        g.player.w \div 2, WIDTH * Q - g.player.w \div 2)]
        drain == currentDrainRate(g4, eco) * effectMultiplier(g4, "drainMultiplier") * dt
        g5 == [g4 EXCEPT !.coinsBalance = @ - drain]
        g6 == spawnAndMove([c EXCEPT !.g = g5], eco, dt)
        g7 == handleCollisions([c EXCEPT !.g = g6], eco)
    IN [c EXCEPT !.g = updateEffects(g7, dt)]

\* Faulty variant of update: the run ends only below zero
update_EndsBelowZero(c, eco, dt) ==
    LET c2 == updateWorld(c, eco, dt)
    IN IF c2.g.coinsBalance < 0 THEN triggerGameOver(c2) ELSE c2

\* Faulty variant of update: the run is settled with 20 obols or fewer left
update_SettlesEarly(c, eco, dt) ==
    LET c2 == updateWorld(c, eco, dt)
    IN IF c2.g.coinsBalance <= 20 * 1000 THEN triggerGameOver(c2) ELSE c2

\* Game.update(dt)
update(c, eco, dt) ==
    LET c2 == updateWorld(c, eco, dt)
    IN IF c2.g.coinsBalance <= 0 THEN triggerGameOver(c2) ELSE c2

\* Game.loop: the simulation step of one animation frame
loop(c, eco, dt) ==
    IF ~c.g.paused /\ ~c.g.gameOver /\ c.g.runActive
    THEN update(c, eco, dt)
    ELSE c


----------------------------------------------------------------------------
(* Game.bindEvents: the handlers *)

\* pauseButton click
pauseButtonClick(g) ==
    IF g.gameOver \/ ~g.runActive THEN g
    ELSE IF g.paused
         THEN [g EXCEPT !.paused = FALSE, !.manualPaused = FALSE, !.pausedByUser = FALSE]
         ELSE [g EXCEPT !.paused = TRUE, !.manualPaused = TRUE, !.pausedByUser = TRUE]

\* window keydown
keydown(c, eco, key, repeat) ==
    LET c1 == [c EXCEPT !.g.keys = @ \cup {key}]
    IN IF key = " " /\ ~repeat THEN fireBribe(c1, eco) ELSE c1

\* window keyup
keyup(g, key) == [g EXCEPT !.keys = @ \ {key}]

\* window blur
blur(g) == [g EXCEPT !.keys = {}]

\* Game.onPointerMove, with the pointer at normalizedX = x / (WIDTH * Q) of
\* the canvas's width
onPointerMove(g, x) ==
    [g EXCEPT !.player.x =
        clamp(x, g.player.w \div 2, WIDTH * Q - g.player.w \div 2)]

\* document visibilitychange, with document.hidden = hidden
visibilityChange(g, hidden) ==
    IF hidden
    THEN [g EXCEPT !.paused = TRUE, !.manualPaused = FALSE, !.pausedByUser = FALSE]
    ELSE IF g.runActive
         THEN [g EXCEPT !.paused = TRUE, !.manualPaused = TRUE, !.pausedByUser = FALSE]
         ELSE g

\* Faulty variant of the onPause callback: a flag instead of a count
platformOnPause_Flag(g) ==
    LET g1 == IF g.platformPauseDepth = 0
              THEN [g EXCEPT !.wasPausedBeforePlatformPause = g.paused,
                             !.wasMutedBeforePlatformPause = g.muted]
              ELSE g
    IN [g1 EXCEPT !.platformPauseDepth = 1,
                  !.paused = TRUE,
                  !.pausedByUser = FALSE,
                  !.muted = TRUE]

\* the callback given to platform.onPause
platformOnPause(g) ==
    LET g1 == IF g.platformPauseDepth = 0
              THEN [g EXCEPT !.wasPausedBeforePlatformPause = g.paused,
                             !.wasMutedBeforePlatformPause = g.muted]
              ELSE g
    IN [g1 EXCEPT !.platformPauseDepth = @ + 1,
                  !.paused = TRUE,
                  !.pausedByUser = FALSE,
                  !.muted = TRUE]

\* Faulty variant of the onResume callback: the user's pause is not consulted
platformOnResume_ForgetsUserPause(g) ==
    IF g.platformPauseDepth <= 0 THEN g
    ELSE LET g1 == [g EXCEPT !.platformPauseDepth = @ - 1]
         IN IF g1.platformPauseDepth > 0 THEN g1
            ELSE [g1 EXCEPT !.paused = g1.gameOver,
                            !.muted = g1.wasMutedBeforePlatformPause]

\* Faulty variant of platform.onResume: a game that is over is not kept
\* paused
platformOnResume_UnpausesGameOver(g) ==
    IF g.platformPauseDepth <= 0 THEN g
    ELSE LET g1 == [g EXCEPT !.platformPauseDepth = @ - 1]
         IN IF g1.platformPauseDepth > 0 THEN g1
            ELSE LET shouldStayPaused ==
                         g1.manualPaused \/ g1.wasPausedBeforePlatformPause
                 IN [g1 EXCEPT !.paused = shouldStayPaused,
                               !.muted = g1.wasMutedBeforePlatformPause]

\* the callback given to platform.onResume
platformOnResume(g) ==
    IF g.platformPauseDepth <= 0 THEN g
    ELSE LET g1 == [g EXCEPT !.platformPauseDepth = @ - 1]
         IN IF g1.platformPauseDepth > 0 THEN g1
            ELSE LET shouldStayPaused ==
                         g1.gameOver \/ g1.manualPaused \/ g1.wasPausedBeforePlatformPause
                 IN [g1 EXCEPT !.paused = shouldStayPaused,
                               !.muted = g1.wasMutedBeforePlatformPause]

\* reviveButton click, after `await showRewarded()` gave true
reviveRewarded(g) ==
    [g EXCEPT !.coinsBalance = ReviveCoins * 1000,
              !.gameOver = FALSE,
              !.paused = FALSE,
              !.manualPaused = FALSE,
              !.modalHidden = TRUE,
              !.reviveInvulnMs = REVIVE_INVULN_MS,
              !.muted = FALSE]

\* Faulty variant of the rewardX2Button continuation: best score left alone
rewardX2Rewarded_KeepsBest(c) ==
    LET g == c.g
        bonus == g.sessionEarningsBase
        wallet == IF bonus > 0 THEN g.saveData.walletCoins + bonus
                  ELSE g.saveData.walletCoins
        g1 == [g EXCEPT !.gameOverScoreMultiplier = 2,
                        !.x2Disabled = TRUE,
                        !.saveData = [@ EXCEPT !.walletCoins = wallet]]
    IN storeWithCloud([c EXCEPT !.g = g1], g1.saveData)

\* rewardX2Button click, after `await showRewarded()` gave true
rewardX2Rewarded(c) ==
    LET g == c.g
        boostedScore == g.gameOverBaseScore * 2
        best == IF boostedScore > g.saveData.bestScore
                THEN boostedScore ELSE g.saveData.bestScore
        bonus == g.sessionEarningsBase
        wallet == IF bonus > 0 THEN g.saveData.walletCoins + bonus
                  ELSE g.saveData.walletCoins
        g1 == [g EXCEPT !.gameOverScoreMultiplier = 2,
                        !.x2Disabled = TRUE,
                        !.saveData = [@ EXCEPT !.bestScore = best, !.walletCoins = wallet]]
    IN storeWithCloud([c EXCEPT !.g = g1], g1.saveData)

\* Game.buyUpgrade, up to its await; what follows is a toast
\* Faulty variant of buyUpgrade: the wallet is not compared with the cost
buyUpgrade_OnCredit(c, eco, branchId) ==
    LET g == c.g
        found == SelectSeq(eco.upgrades, LAMBDA item : item.id = branchId)
        branch == found[1]
        level == g.saveData.upgrades[branch.id]
        next == branch.levels[level + 1]
    IN IF found = << >> THEN c
       ELSE IF level < 0 \/ level >= Len(branch.levels) THEN c
       ELSE LET g1 == [g EXCEPT !.saveData.walletCoins = @ - next.cost,
                                !.saveData.upgrades[branch.id] = level + 1]
            IN storeWithCloud([c EXCEPT !.g = g1], g1.saveData)

buyUpgrade(c, eco, branchId) ==
    LET g == c.g
        found == SelectSeq(eco.upgrades, LAMBDA item : item.id = branchId)
        branch == found[1]
        level == g.saveData.upgrades[branch.id]
        next == branch.levels[level + 1]
    IN IF found = << >> THEN c
       ELSE IF level < 0 \/ level >= Len(branch.levels) THEN c
       ELSE IF g.saveData.walletCoins < next.cost THEN c
       ELSE LET g1 == [g EXCEPT !.saveData.walletCoins = @ - next.cost,
                                !.saveData.upgrades[branch.id] = level + 1]
            IN storeWithCloud([c EXCEPT !.g = g1], g1.saveData)

\* Game.handleProgressReset with what window.confirm returned, up to the
\* await in SaveService.reset.  The yandex platform has a player, whose
\* setData takes its time; the noop platform's saveCloudSave is settled
\* before any other handler runs.
handleProgressReset(c, confirmed) ==
    IF ~confirmed THEN c
    ELSE LET c1 == storeWithCloud(c, defaults)
         IN IF c.p.kind = "yandex"
            THEN [c1 EXCEPT !.p.resets = @ + 1]
            ELSE [c1 EXCEPT !.g.saveData = defaults]

\* Game.handleProgressReset, after the await: this.saveData = the defaults
\* that SaveService.reset returns
progressResetDone(c) ==
    [c EXCEPT !.g.saveData = defaults, !.p.resets = @ - 1]

\* restartButton click
restartButtonClick(g) ==
    [g EXCEPT !.modalHidden = TRUE,
              !.menuHidden = FALSE,
              !.runActive = FALSE,
              !.paused = TRUE,
              !.manualPaused = FALSE,
              !.pausedByUser = FALSE]

\* Faulty variant of continuation: the result of the ad is not consulted
continuation_IgnoresResult(c, eco, kind, result) ==
    CASE kind = "revive" -> [c EXCEPT !.g = reviveRewarded(c.g)]
      [] kind = "x2"     -> rewardX2Rewarded(c)
      [] kind = "start"  -> [c EXCEPT !.g = startNewRun(c.g, eco)]

\* What runs when the promise a handler awaits is resolved with `result`:
\* the rest of the reviveButton, rewardX2Button or startRunButton handler.
continuation(c, eco, kind, result) ==
    CASE kind = "revive" -> IF result THEN [c EXCEPT !.g = reviveRewarded(c.g)] ELSE c
      [] kind = "x2"     -> IF result THEN rewardX2Rewarded(c) ELSE c
      [] kind = "start"  -> [c EXCEPT !.g = startNewRun(c.g, eco)]

\* resolve(result) of the promise of showRewarded / showInterstitial, and the
\* handler that awaits it (lastResolved is history: the code keeps no such note)
resolve(c, eco, kind, result) ==
    continuation([c EXCEPT !.p.lastResolved = [kind |-> kind, result |-> result]],
                 eco, kind, result)

----------------------------------------------------------------------------
(* Platform: NoopPlatform and YandexPlatform *)

\* Faulty variant of the game_api_pause listener: the callbacks run whether
\* or not an ad is in flight
gameApiPause_DuringAds(c) == [c EXCEPT !.g = platformOnPause(c.g)]

\* YandexPlatform.init, ysdk.on('game_api_pause')
gameApiPause(c) ==
    IF c.p.adDepth > 0 THEN c ELSE [c EXCEPT !.g = platformOnPause(c.g)]

\* YandexPlatform.init, ysdk.on('game_api_resume')
gameApiResume(c) ==
    IF c.p.adDepth > 0 THEN c ELSE [c EXCEPT !.g = platformOnResume(c.g)]

\* showRewarded / showInterstitial up to the SDK call: NoopPlatform resolves
\* false at once, YandexPlatform counts the ad and waits for the SDK.
showAd(c, eco, kind) ==
    IF c.p.kind = "noop"
    THEN resolve(c, eco, kind, FALSE)
    ELSE [c EXCEPT !.p.adDepth = @ + 1,
                   !.p.ads = @ (+) SetToBag({[kind |-> kind, opened |-> FALSE,
                                              rewarded |-> FALSE]})]

\* onOpen of the ad `ad`
adOnOpen(c, ad) ==
    [c EXCEPT !.p.ads = (@ (-) SetToBag({ad}))
                        (+) SetToBag({[ad EXCEPT !.opened = TRUE]}),
              !.g = platformOnPause(c.g)]

\* onRewarded of the ad `ad`
adOnRewarded(c, ad) ==
    [c EXCEPT !.p.ads = (@ (-) SetToBag({ad}))
                        (+) SetToBag({[ad EXCEPT !.rewarded = TRUE]})]

\* onClose / onError of the ad `ad`: resume if it had opened, resolve(result),
\* finish(), and then the awaiting handler goes on.
adFinish(c, eco, ad, result) ==
    LET c1 == IF ad.opened THEN [c EXCEPT !.g = platformOnResume(c.g)] ELSE c
        c2 == [c1 EXCEPT !.p.adDepth = Max(0, @ - 1),
                         !.p.ads = @ (-) SetToBag({ad})]
    IN resolve(c2, eco, ad.kind, result)

----------------------------------------------------------------------------
(* The state machine *)

\* no promise resolved yet in the step being taken
NoneResolved == [kind |-> "none", result |-> FALSE]

\* the program state a handler starts from
Cur == [g |-> game, ls |-> localStorage,
        p |-> [platform EXCEPT !.lastResolved = NoneResolved],
        r |-> DefaultDraw]

Commit(c) ==
    /\ game' = c.g
    /\ localStorage' = c.ls
    /\ platform' = c.p

InitGame(raw) ==
    [ elapsedMs |-> 0, distance |-> 0, coinsBalance |-> 0,
      paused |-> TRUE, manualPaused |-> FALSE, pausedByUser |-> FALSE,
      gameOver |-> FALSE, runActive |-> FALSE, deathCount |-> 0,
      reviveInvulnMs |-> 0, lastInterstitialAtMs |-> 0,
      gameOverBaseScore |-> 0, gameOverScoreMultiplier |-> 1,
      soulsCollected |-> 0, sessionEarningsBase |-> 0,
      player |-> [x |-> (WIDTH \div 2) * Q, y |-> (HEIGHT - 70) * Q,
                  w |-> 50 * Q, speed |-> 340],
      keys |-> {},
      obstacles |-> << >>, coins |-> << >>, projectiles |-> << >>,
      gates |-> << >>, effects |-> << >>,
      shieldMax |-> 0, shieldCount |-> 0, shieldRegenSec |-> 0,
      shieldRegenTimer |-> 0, obstacleDamageMult |-> 1000,
      magnetMult |-> 1000, soulValueMult |-> 1000, doubleSoulChance |-> 0,
      bribeCooldownMult |-> 1000, freeBribeEverySec |-> 0,
      bribeSplashRadius |-> 0, bribeCooldownLeftSec |-> 0,
      freeBribeTimerSec |-> 0, freeBribeReady |-> FALSE,
      obstacleSpawnTimer |-> 0, coinSpawnTimer |-> 0, gateSpawnTimer |-> 0,
      platformPauseDepth |-> 0,
      wasPausedBeforePlatformPause |-> FALSE,
      wasMutedBeforePlatformPause |-> FALSE,
      muted |-> FALSE,           \* audio.muted
      modalHidden |-> TRUE,      \* modal.hidden
      menuHidden |-> FALSE,      \* menu.hidden
      x2Disabled |-> FALSE,      \* rewardX2Button.disabled
      runsStarted |-> 0,         \* history: calls of startNewRun
      saveData |-> load(raw) ]

InitWith(eco, kinds, payloads) ==
    /\ economy = eco
    /\ localStorage \in payloads
    /\ game = InitGame(localStorage)
    /\ platform \in {[kind |-> k, adDepth |-> 0, ads |-> EmptyBag,
                      \* the cloud saves of SaveService.reset in flight
                      resets |-> 0,
                      \* history: game_api_pause events not yet followed by a
                      \* game_api_resume event
                      sdkPending |-> 0,
                      \* history: when showInterstitial was called
                      interstitialLog |-> << >>,
                      \* history: the promise resolved by the latest step
                      lastResolved |-> NoneResolved]
                     : k \in kinds}
    /\ documentHidden = FALSE
    /\ nowSec = BootSec

StoredBest == Payload([defaults EXCEPT !.bestScore = InitialBest])

PauseButtonClick ==
    /\ Commit([Cur EXCEPT !.g = pauseButtonClick(game)])
    /\ UNCHANGED <<economy, documentHidden, nowSec>>

\* startRunButton click; the button is in the menu overlay
StartRunClick(maxDeaths, maxAds) ==
    /\ ~game.menuHidden
    /\ game.deathCount < maxDeaths
    /\ IF game.gameOver /\ shouldShowInterstitialOnRestart(game, economy, nowSec)
       THEN /\ BagCardinality(platform.ads) < maxAds
            /\ Commit(showAd([Cur EXCEPT !.g.lastInterstitialAtMs = nowSec * 1000,
                                         !.p.interstitialLog =
                                             Append(@, [at |-> nowSec,
                                                        deaths |-> game.deathCount])],
                             economy, "start"))
       ELSE Commit([Cur EXCEPT !.g = startNewRun(game, economy)])
    /\ UNCHANGED <<economy, documentHidden, nowSec>>

\* restartButton click; the button is in the game-over modal
RestartClick ==
    /\ ~game.modalHidden
    /\ Commit([Cur EXCEPT !.g = restartButtonClick(game)])
    /\ UNCHANGED <<economy, documentHidden, nowSec>>

\* reviveButton click
ReviveClick(maxAds) ==
    /\ ~game.modalHidden
    /\ IF ~game.gameOver THEN Commit(Cur)
       ELSE /\ BagCardinality(platform.ads) < maxAds
            /\ Commit(showAd(Cur, economy, "revive"))
    /\ UNCHANGED <<economy, documentHidden, nowSec>>

\* rewardX2Button click
RewardX2Click(maxAds) ==
    /\ ~game.modalHidden
    /\ ~game.x2Disabled
    /\ IF ~game.gameOver \/ game.gameOverScoreMultiplier = 2 THEN Commit(Cur)
       ELSE /\ BagCardinality(platform.ads) < maxAds
            /\ Commit(showAd(Cur, economy, "x2"))
    /\ UNCHANGED <<economy, documentHidden, nowSec>>

\* a shop button click; the shop is in the menu overlay
BuyUpgradeClick ==
    /\ ~game.menuHidden
    /\ \E branchId \in Branches : Commit(buyUpgrade(Cur, economy, branchId))
    /\ UNCHANGED <<economy, documentHidden, nowSec>>

\* resetProgressButton click; the button is in the menu overlay
ProgressResetClick(maxResets) ==
    /\ ~game.menuHidden
    /\ platform.resets < maxResets
    /\ \E confirmed \in BOOLEAN : Commit(handleProgressReset(Cur, confirmed))
    /\ UNCHANGED <<economy, documentHidden, nowSec>>

\* the cloud save of a progress reset is settled
CloudSaveSettled ==
    /\ platform.resets > 0
    /\ Commit(progressResetDone(Cur))
    /\ UNCHANGED <<economy, documentHidden, nowSec>>

\* bribeButton click, with what Math.random gives for the free shot
BribeButtonClick(rolls) ==
    /\ \E roll \in rolls :
          Commit(fireBribe([Cur EXCEPT !.r.freeRoll = roll], economy))
    /\ UNCHANGED <<economy, documentHidden, nowSec>>

VisibilityChange ==
    /\ documentHidden' = ~documentHidden
    /\ Commit([Cur EXCEPT !.g = visibilityChange(game, ~documentHidden)])
    /\ UNCHANGED <<economy, nowSec>>

\* the SDK's game_api_pause event
SdkPause ==
    /\ platform.kind = "yandex"
    /\ game.platformPauseDepth < MaxPauseDepth
    /\ platform.sdkPending < MaxPauseDepth
    /\ Commit([gameApiPause(Cur) EXCEPT !.p.sdkPending = @ + 1])
    /\ UNCHANGED <<economy, documentHidden, nowSec>>

\* the SDK's game_api_resume event
SdkResume ==
    /\ platform.kind = "yandex"
    /\ Commit([gameApiResume(Cur) EXCEPT !.p.sdkPending = Max(0, @ - 1)])
    /\ UNCHANGED <<economy, documentHidden, nowSec>>

AdOpen ==
    /\ \E ad \in BagToSet(platform.ads) :
          /\ ~ad.opened
          /\ Commit(adOnOpen(Cur, ad))
    /\ UNCHANGED <<economy, documentHidden, nowSec>>

\* the SDK counts a rewarded video as watched only once it is showing
AdRewarded ==
    /\ \E ad \in BagToSet(platform.ads) :
          /\ ad.kind # "start"
          /\ ad.opened
          /\ ~ad.rewarded
          /\ Commit(adOnRewarded(Cur, ad))
    /\ UNCHANGED <<economy, documentHidden, nowSec>>

AdClose ==
    /\ \E ad \in BagToSet(platform.ads) :
          Commit(adFinish(Cur, economy, ad, ad.rewarded))
    /\ UNCHANGED <<economy, documentHidden, nowSec>>

AdError ==
    /\ \E ad \in BagToSet(platform.ads) :
          Commit(adFinish(Cur, economy, ad, FALSE))
    /\ UNCHANGED <<economy, documentHidden, nowSec>>

\* requestAnimationFrame: Game.loop, after dt milliseconds (clamped) and with
\* the draw that Math.random gives during the frame
Frame(dts, draws) ==
    /\ \E dt \in dts, draw \in draws :
          Commit(loop([Cur EXCEPT !.r = draw], economy, dt))
    /\ UNCHANGED <<economy, documentHidden, nowSec>>

\* a frame as long as the clamp allows, in which whatever spawns stays out of
\* the way
LoopFrame == Frame({MaxStepMs}, {DefaultDraw})

\* real time passes
ClockTick ==
    /\ nowSec < BootSec + MaxClockSteps * ClockStepSec
    /\ nowSec' = nowSec + ClockStepSec
    /\ UNCHANGED <<game, platform, localStorage, economy, documentHidden>>

----------------------------------------------------------------------------
(* Pause and resume under every handler and every SDK event *)

Init == InitWith(FastEconomy, {"noop", "yandex"}, {NoPayload})

Next ==
    \/ PauseButtonClick
    \/ StartRunClick(MaxDeathsOne, MaxAds)
    \/ RestartClick
    \/ ReviveClick(MaxAds)
    \/ RewardX2Click(MaxAds)
    \/ VisibilityChange
    \/ SdkPause
    \/ SdkResume
    \/ AdOpen
    \/ AdRewarded
    \/ AdClose
    \/ AdError
    \/ LoopFrame

Spec == Init /\ [][Next]_vars

----------------------------------------------------------------------------
(* The run lifecycle over several runs; the pause callbacks are called by
   the ads *)

InitRuns == InitWith(FastEconomy, {"noop", "yandex"}, {NoPayload})

NextRuns ==
    \/ PauseButtonClick
    \/ StartRunClick(MaxDeaths, MaxAds)
    \/ RestartClick
    \/ ReviveClick(MaxAds)
    \/ RewardX2Click(MaxAds)
    \/ VisibilityChange
    \/ AdOpen
    \/ AdRewarded
    \/ AdClose
    \/ AdError
    \/ LoopFrame

SpecRuns == InitRuns /\ [][NextRuns]_vars

----------------------------------------------------------------------------
(* The rewarded ads of a game over: two ads may be in flight; the pause
   callbacks are called by the ads *)

InitReward == InitWith(FastEconomy, {"noop", "yandex"}, {NoPayload, StoredBest})

NextReward ==
    \/ PauseButtonClick
    \/ StartRunClick(MaxDeathsOne, MaxAdsReward)
    \/ RestartClick
    \/ ReviveClick(MaxAdsReward)
    \/ RewardX2Click(MaxAdsReward)
    \/ VisibilityChange
    \/ AdOpen
    \/ AdRewarded
    \/ AdClose
    \/ AdError
    \/ LoopFrame

SpecReward == InitReward /\ [][NextReward]_vars

----------------------------------------------------------------------------
(* The interstitial schedule over several deaths, with the wall clock *)

InitInterstitial == InitWith(FastEconomy, {"noop", "yandex"}, {NoPayload})

NextInterstitial ==
    \/ StartRunClick(MaxDeathsLong, MaxAds)
    \/ RestartClick
    \/ AdOpen
    \/ AdClose
    \/ AdError
    \/ LoopFrame
    \/ ClockTick

SpecInterstitial == InitInterstitial /\ [][NextInterstitial]_vars

----------------------------------------------------------------------------
(* The end-to-end drain scenario: 100 obols, 5 per second, nothing touched *)

InitE2E == InitWith(E2EEconomy, {"noop"}, {NoPayload})

NextE2E ==
    \/ PauseButtonClick
    \/ StartRunClick(MaxDeathsOne, MaxAds)
    \/ RestartClick
    \/ LoopFrame

SpecE2E == InitE2E /\ [][NextE2E]_vars

----------------------------------------------------------------------------
(* SaveService.load on whatever is found under SAVE_STORAGE_KEY.  Here
   game.saveData holds the JSON values that load returned. *)

\* what a stored field may hold: nothing, null, a number, a string
StoredField == {JOther("absent"), JOther("null"), JNumber(7), JOther("string")}

\* what a level in a stored upgrades object may hold
StoredLevel == {JOther("absent"), JNumber(2)}

StoredItems ==
    {Item(form, JOther("absent"), JOther("absent"), "absent",
          [b \in Branches |-> JOther("absent")])
        : form \in {"missing", "garbage", "null", "scalar"}}
    \cup {Item("object", best, wallet, t, [b \in Branches |-> JOther("absent")])
             : best \in StoredField, wallet \in StoredField,
               t \in {"absent", "null", "number", "string"}}
    \cup {Item("object", best, wallet, "object", levels)
             : best \in StoredField, wallet \in StoredField,
               levels \in [Branches -> StoredLevel]}

\* new Game(...): this.saveData = SaveService.load(config.upgrades)
PageLoad ==
    /\ game' = [game EXCEPT !.saveData = loadItem(localStorage)]
    /\ UNCHANGED <<platform, localStorage, economy, documentHidden, nowSec>>

\* the stored item is replaced from outside the game: another version of
\* the page, the player, the platform's storage
ItemReplaced ==
    /\ localStorage' \in StoredItems
    /\ UNCHANGED <<game, platform, economy, documentHidden, nowSec>>

InitLoad ==
    /\ economy = FastEconomy
    /\ localStorage \in StoredItems
    /\ game = [InitGame(NoPayload) EXCEPT !.saveData = loadItem(localStorage)]
    /\ platform = [kind |-> "noop", adDepth |-> 0, ads |-> EmptyBag,
                   resets |-> 0,
                   \* history: game_api_pause events not yet followed by a
                   \* game_api_resume event
                   sdkPending |-> 0,
                   interstitialLog |-> << >>, lastResolved |-> NoneResolved]
    /\ documentHidden = FALSE
    /\ nowSec = BootSec

NextLoad ==
    \/ PageLoad
    \/ ItemReplaced

SpecLoad == InitLoad /\ [][NextLoad]_vars

----------------------------------------------------------------------------
(* The active effects: gates are applied to a running game and decay, up to
   MaxEffects effects at a time.  Which gate is applied when is left open
   here; the world decides it in handleCollisions. *)

\* handleCollisions: this.applyGate(...) for the gate the boat chose
GateApplied ==
    /\ Simulating(game)
    /\ Len(game.effects) < MaxEffects
    /\ \E i \in 1..Len(economy.gates) :
          game' = applyGate(game, economy, economy.gates[i])
    /\ UNCHANGED <<platform, localStorage, economy, documentHidden, nowSec>>

\* update: this.updateEffects(dt)
EffectsDecay ==
    /\ Simulating(game)
    /\ \E dt \in DtChoices : game' = updateEffects(game, dt)
    /\ UNCHANGED <<platform, localStorage, economy, documentHidden, nowSec>>

InitEffects == InitWith(FastEconomy, {"noop"}, {NoPayload})

NextEffects ==
    \/ StartRunClick(MaxDeathsOne, MaxAds)
    \/ GateApplied
    \/ EffectsDecay

SpecEffects == InitEffects /\ [][NextEffects]_vars

----------------------------------------------------------------------------
(* The drain tiers (0,1), (30,2), (60,4) of the specification's scenario, in
   each of their six configured orders; 100 obols last 62.5 s, and the first
   gate pair comes later than that. *)

ScenarioTiers ==
    << [fromSec |-> 0, rate |-> 1], [fromSec |-> 30, rate |-> 2],
       [fromSec |-> 60, rate |-> 4] >>

TierEconomies ==
    {[FastEconomy EXCEPT
         !.firstGateDelaySec = JNumber(100 * 1000),
         !.coinDrainTiers =
             [i \in 1..Len(ScenarioTiers) |-> ScenarioTiers[perm[i]]]]
        : perm \in Permutations(1..Len(ScenarioTiers))}

InitDrain == \E eco \in TierEconomies : InitWith(eco, {"noop"}, {NoPayload})

NextDrain ==
    \/ StartRunClick(MaxDeathsOne, MaxAds)
    \/ LoopFrame

SpecDrain == InitDrain /\ [][NextDrain]_vars

----------------------------------------------------------------------------
(* The world.  Frames are as long as the clamp allows.  The boat stays in
   the middle unless the pointer moves it; each specification draws into the
   boat's way the entities it is about and leaves the others at the edge. *)

\* the stored upgrade levels a game may boot with
StoredLevels(branch) ==
    {Payload([defaults EXCEPT !.upgrades[branch] = n]) : n \in 0..2}

\* Coins spawn at the left edge or in the middle; the double-soul roll is as
\* low or as high as it can be; the gate pair is PLENTY, DEBT.
CoinDraws ==
    {[DefaultDraw EXCEPT !.coinX = x, !.doubleRoll = roll, !.gatePair = << 2, 3 >>]
        : x \in {0, 500}, roll \in {0, 999}}

InitCoins ==
    \E payload \in StoredLevels("farm") :
        InitWith(WorldEconomy, {"noop"}, {payload})

NextCoins ==
    \/ StartRunClick(MaxDeathsOne, MaxAds)
    \/ Frame({MaxStepMs}, CoinDraws)

SpecCoins == InitCoins /\ [][NextCoins]_vars

\* Obstacles of either template spawn every 0.8 s, at the left edge or in the
\* middle; the gate pair is CURSE, HASTE.
ObstacleDraws ==
    {[DefaultDraw EXCEPT !.obstacleInterval = 0, !.obstacleX = x,
                         !.template = t, !.gatePair = << 4, 1 >>]
        : x \in {0, 500}, t \in {0, 999}}

InitObstacles ==
    \E payload \in StoredLevels("defense") :
        InitWith(WorldEconomy, {"noop"}, {payload})

NextObstacles ==
    \/ StartRunClick(MaxDeathsOne, MaxAds)
    \/ Frame({MaxStepMs}, ObstacleDraws)

SpecObstacles == InitObstacles /\ [][NextObstacles]_vars

\* Where the pointer puts the boat, in quarter pixels: outside the zones, on
\* and next to their edges (160, 330, 570, 740), and in and next to the
\* middle (450).
PointerXs ==
    {90 * Q, 160 * Q, 330 * Q, 330 * Q + 1, 450 * Q - 1, 450 * Q, 450 * Q + 1,
     570 * Q - 1, 570 * Q, 740 * Q, 740 * Q + 1, 810 * Q}

\* the gate pairs drawn: HASTE and PLENTY either way round, DEBT and CURSE
GateDraws ==
    {[DefaultDraw EXCEPT !.gatePair = pair]
        : pair \in {<< 1, 2 >>, << 2, 1 >>, << 3, 4 >>}}

\* canvas pointerdown, or pointermove while dragging
PointerMove ==
    /\ \E x \in PointerXs : game' = onPointerMove(game, x)
    /\ UNCHANGED <<platform, localStorage, economy, documentHidden, nowSec>>

InitGates == InitWith(WorldEconomy, {"noop"}, {NoPayload})

NextGates ==
    \/ StartRunClick(MaxDeathsOne, MaxAds)
    \/ PointerMove
    \/ Frame({MaxStepMs}, GateDraws)

SpecGates == InitGates /\ [][NextGates]_vars

\* the middles of the two zones of a gate pair, where the pointer puts the
\* boat
ZoneCenters == {245 * Q, 655 * Q}

\* every gate pair is DEBT, CURSE: both permanent
PairDraws == {[DefaultDraw EXCEPT !.gatePair = << 3, 4 >>]}

PointerToZone ==
    /\ \E x \in ZoneCenters : game' = onPointerMove(game, x)
    /\ UNCHANGED <<platform, localStorage, economy, documentHidden, nowSec>>

InitPairs == InitWith(PairsEconomy, {"noop"}, {NoPayload})

NextPairs ==
    \/ StartRunClick(MaxDeathsOne, MaxAds)
    \/ PointerToZone
    \/ Frame({MaxStepMs}, PairDraws)

SpecPairs == InitPairs /\ [][NextPairs]_vars

\* the free-shot roll is as low or as high as it can be
FreeRolls == {0, 999}

\* the stored skills level is 0 or 1 (a free shot every second, cooldown
\* x 0.6)
SkillsLevels == {NoPayload, Payload([defaults EXCEPT !.upgrades.skills = 1])}

InitBribe ==
    \E payload \in SkillsLevels : InitWith(BribeEconomy, {"noop"}, {payload})

NextBribe ==
    \/ StartRunClick(MaxDeathsOne, MaxAds)
    \/ PauseButtonClick
    \/ BribeButtonClick(FreeRolls)
    \/ LoopFrame

SpecBribe == InitBribe /\ [][NextBribe]_vars

\* Obstacles of the first template spawn every 0.8 s in the middle, where
\* the boat and its projectiles are: 120 pixels one from the next.
SplashDraws ==
    {[DefaultDraw EXCEPT !.obstacleInterval = 0, !.obstacleX = 500]}

\* without splash, or with a splash radius of 200 pixels
InitSplash ==
    \E payload \in SkillsLevels : InitWith(SplashEconomy, {"noop"}, {payload})

NextSplash ==
    \/ StartRunClick(MaxDeathsOne, MaxAds)
    \/ BribeButtonClick({DefaultDraw.freeRoll})
    \/ Frame({MaxStepMs}, SplashDraws)

SpecSplash == InitSplash /\ [][NextSplash]_vars

\* MetaProgress: a wallet of 30 buys upgrades, a run ends, progress is
\* reset, on either platform.
StoredWallet == Payload([defaults EXCEPT !.walletCoins = 30])

InitSave == InitWith(FastEconomy, {"noop", "yandex"}, {StoredWallet})

NextSave ==
    \/ StartRunClick(MaxDeathsOne, MaxAds)
    \/ RestartClick
    \/ BuyUpgradeClick
    \/ ProgressResetClick(MaxResets)
    \/ CloudSaveSettled
    \/ LoopFrame

SpecSave == InitSave /\ [][NextSave]_vars

\* Obstacles of the first template spawn every 0.8 s in the middle, where the
\* boat is.
ReviveDraws ==
    {[DefaultDraw EXCEPT !.obstacleInterval = 0, !.obstacleX = 500]}

\* A rewarded revive may still be in flight when the next run is started;
\* the stored defense level is 0 or 2.  One ad is in flight at a time.
InitRevive ==
    \E payload \in {NoPayload, Payload([defaults EXCEPT !.upgrades.defense = 2])} :
        InitWith(ReviveEconomy, {"yandex"}, {payload})

NextRevive ==
    \/ StartRunClick(MaxDeaths, MaxAds)
    \/ RestartClick
    \/ (platform.ads = EmptyBag /\ ReviveClick(MaxAds))
    \/ AdOpen
    \/ AdRewarded
    \/ AdClose
    \/ Frame({MaxStepMs}, ReviveDraws)

SpecRevive == InitRevive /\ [][NextRevive]_vars

----------------------------------------------------------------------------
(* Properties *)

RECURSIVE Pauses(_, _)
\* n calls of the platform pause callback
Pauses(g, n) == IF n = 0 THEN g ELSE Pauses(platformOnPause(g), n - 1)

RECURSIVE Resumes(_, _)
\* n calls of the platform resume callback
Resumes(g, n) == IF n = 0 THEN g ELSE Resumes(platformOnResume(g), n - 1)

\* a step that enters GameOver
EnterGameOver == ~game.gameOver /\ game'.gameOver

\* a step in which the rewarded ad `kind` resolves with `result`
AdResolves(kind, result) ==
    \E ad \in BagToSet(platform.ads) :
        /\ ad.kind = kind
        /\ result => ad.rewarded
        /\ Commit(adFinish(Cur, economy, ad, result))

\* C1: while a platform suspend is pending the game is paused, so the
\* simulation step does not run: platformPauseDepth > 0 implies paused.
C1_SuspendedIsPaused ==
    game.platformPauseDepth > 0 => game.paused

\* C1, as the code has it: a pause-button click, a run start or a revive
\* during a platform suspend lets the simulation run with the suspend pending.
C1_SimulatesWhileSuspended ==
    game.platformPauseDepth > 0 /\ Simulating(game) /\ game.elapsedMs > 0

\* C2: a user pause outlives the platform's pauses and resumes.  A manual
\* pause is always a pause; the resume callback leaves a manually paused game
\* paused; and a pause-button pause followed by n platform pauses and their n
\* resumes is still paused.
C2_UserPauseOutlivesResume ==
    /\ game.manualPaused => game.paused
    /\ game.manualPaused => platformOnResume(game).paused
    /\ Simulating(game) =>
          \A n \in 1..NestDepth :
              Resumes(Pauses(pauseButtonClick(game), n), n).paused

\* C2: the user paused the run, and the last of the platform's pauses is
\* about to be resumed.
C2_Witness ==
    /\ game.runActive /\ game.manualPaused /\ game.pausedByUser = FALSE
    /\ game.platformPauseDepth = 1
    /\ game.wasPausedBeforePlatformPause
    /\ game.elapsedMs > 0

\* C3: platform pauses nest by count.  The depth is never negative; a resume
\* with no pause pending changes nothing; after n pauses the game is paused
\* through the first n - 1 resumes, each of which only lowers the depth by
\* one, and the n-th resume brings the depth back to where it was.
C3_PausesNestByCount ==
    /\ game.platformPauseDepth >= 0
    /\ game.platformPauseDepth = 0 => platformOnResume(game) = game
    /\ \A n \in 1..NestDepth :
          /\ \A k \in 0..(n - 1) :
                LET h == Resumes(Pauses(game, n), k)
                IN /\ h.paused
                   /\ h.platformPauseDepth = game.platformPauseDepth + n - k
          /\ Resumes(Pauses(game, n), n).platformPauseDepth
                = game.platformPauseDepth

\* C3: two platform pauses are pending on a run that was not paused before
\* them, so that only the count keeps the game paused after the next resume.
C3_Witness ==
    /\ game.platformPauseDepth = 2
    /\ game.runActive /\ game.paused /\ ~game.manualPaused
    /\ ~game.wasPausedBeforePlatformPause

\* C4: a revive whose rewarded ad succeeds returns the run to Running: the
\* balance is 50, the invulnerability timer 1200 ms, gameOver is false and
\* the guard of the simulation step holds.
C4_ReviveResumesRun ==
    [][(game.gameOver /\ AdResolves("revive", TRUE)) =>
          /\ game'.coinsBalance = ReviveCoins * 1000
          /\ game'.reviveInvulnMs = REVIVE_INVULN_MS
          /\ ~game'.gameOver
          /\ Simulating(game')]_vars

\* C4, as the code has it: after the revive nothing is simulated, because
\* runActive stays false.
C4_RevivedButFrozen ==
    /\ platform.lastResolved = [kind |-> "revive", result |-> TRUE]
    /\ ~game.gameOver /\ ~game.paused /\ ~game.runActive
    /\ game.coinsBalance = ReviveCoins * 1000
    /\ \A dt \in DtChoices : loop(Cur, economy, dt) = Cur

\* C5: a rewarded ad that resolves false (declined, closed without reward,
\* error) changes neither gameOver nor the balance, the wallet, the best
\* score, the stored payload or the score multiplier; without a platform
\* the revive and the doubling requests change nothing at all.
C5_DeclinedAdChangesNothing ==
    /\ [][(AdResolves("revive", FALSE) \/ AdResolves("x2", FALSE)) =>
             /\ game'.gameOver = game.gameOver
             /\ game'.coinsBalance = game.coinsBalance
             /\ game'.saveData = game.saveData
             /\ game'.gameOverScoreMultiplier = game.gameOverScoreMultiplier
             /\ localStorage' = localStorage]_vars
    /\ [](platform.kind = "noop" =>
             \A kind \in {"revive", "x2"} :
                 LET c == showAd(Cur, economy, kind)
                 IN c.g = game /\ c.ls = localStorage)

\* C5: in GameOver, a rewarded ad has just resolved false.
C5_Witness ==
    /\ game.gameOver
    /\ platform.lastResolved.kind \in {"revive", "x2"}
    /\ ~platform.lastResolved.result
    /\ game.gameOverScoreMultiplier = 1
    /\ game.saveData.walletCoins = game.sessionEarningsBase

\* C6: the doubling is applied at most once per game over: it is never
\* applied when the multiplier of this game over is already 2.
C6_DoublingAppliedOnce ==
    [][AdResolves("x2", TRUE) => game.gameOverScoreMultiplier = 1]_vars

\* C6, as the code has it: two doublings in flight both pay the bonus; in
\* the first run from an empty wallet the wallet then holds three earnings.
C6_BonusPaidTwice ==
    /\ game.gameOver /\ game.deathCount = 1
    /\ game.sessionEarningsBase > 0
    /\ game.saveData.walletCoins = 3 * game.sessionEarningsBase

\* C7: the settlement of a run credits the wallet with the run's earnings,
\* and a successful doubling credits exactly the same amount again; after
\* the doubling the best score, in memory and as stored, is at least twice
\* the base score, and it has changed only if the doubled score exceeded it.
C7_DoublingCreditsEarnings ==
    /\ [][EnterGameOver =>
             game'.saveData.walletCoins
                = game.saveData.walletCoins + game'.sessionEarningsBase]_vars
    /\ [][AdResolves("x2", TRUE) =>
             /\ game'.saveData.walletCoins
                   = game.saveData.walletCoins + game.sessionEarningsBase
             /\ game'.saveData.bestScore >= 2 * game.gameOverBaseScore
             /\ localStorage'.present
             /\ localStorage'.bestScore = game'.saveData.bestScore
             /\ localStorage'.walletCoins = game'.saveData.walletCoins
             /\ (2 * game.gameOverBaseScore <= game.saveData.bestScore
                    => game'.saveData.bestScore = game.saveData.bestScore)
             /\ (2 * game.gameOverBaseScore > game.saveData.bestScore
                    => game'.saveData.bestScore = 2 * game.gameOverBaseScore)
             /\ game'.gameOverScoreMultiplier = 2]_vars

\* C7: a doubling has been paid in GameOver, and the stored best score was
\* not raised by it because the doubled score did not exceed it.
C7_Witness ==
    /\ game.gameOver
    /\ platform.lastResolved = [kind |-> "x2", result |-> TRUE]
    /\ game.gameOverScoreMultiplier = 2
    /\ game.sessionEarningsBase > 0
    /\ game.saveData.walletCoins = 2 * game.sessionEarningsBase
    /\ localStorage.bestScore = InitialBest
    /\ 2 * game.gameOverBaseScore <= InitialBest

\* a step in which the simulation step of a frame runs
SimulationStep ==
    /\ Simulating(game)
    /\ \E dt \in DtChoices : Commit(loop(Cur, economy, dt))

\* C8: depletion ends the run in the tick that finds the balance at or below
\* zero: after a simulation step either the balance is positive and the run
\* goes on, or the game is in GameOver with balance 0, one more death and the
\* simulation halted.  With 100 obols drained at 5 per second and nothing
\* touched, the run is still going before 20 s have elapsed and is over in
\* the frame that reaches 20 s, which is the run's only death.
C8_DepletionEndsRun ==
    /\ [][SimulationStep =>
             \/ /\ game'.coinsBalance > 0
                /\ ~game'.gameOver
                /\ Simulating(game')
                /\ game'.deathCount = game.deathCount
             \/ /\ game'.gameOver
                /\ game'.coinsBalance = 0
                /\ game'.deathCount = game.deathCount + 1
                /\ \A dt \in DtChoices :
                      loop([g |-> game', ls |-> localStorage', p |-> platform',
                            r |-> DefaultDraw],
                           economy, dt).g = game']_vars
    /\ [](game.runActive =>
             /\ game.elapsedMs < 20 * 1000
             /\ game.coinsBalance = 100 * 1000 - 5 * game.elapsedMs)
    /\ [](game.gameOver =>
             /\ game.elapsedMs >= 20 * 1000
             /\ game.elapsedMs < 20 * 1000 + MaxStepMs
             /\ game.deathCount = game.runsStarted
             /\ (game.runsStarted = 1 => game.deathCount = 1))

\* C8: the first run has ended by depletion exactly 20 s in.
C8_Witness ==
    /\ game.gameOver
    /\ game.deathCount = 1
    /\ game.elapsedMs = 20 * 1000
    /\ game.coinsBalance = 0
    /\ game.saveData.walletCoins = 300

\* C9: deathCount rises by one on every entry to GameOver and changes in no
\* other step, a run start included; GameOver is entered only from an active
\* run and ends it, and a run becomes active only by a run start, so between
\* two run starts GameOver is entered at most once.
C9_DeathCount ==
    /\ [][/\ EnterGameOver => game'.deathCount = game.deathCount + 1
          /\ game'.deathCount # game.deathCount => EnterGameOver
          /\ EnterGameOver => game.runActive /\ ~game'.runActive
          /\ (~game.runActive /\ game'.runActive)
                => game'.runsStarted = game.runsStarted + 1
          /\ game'.runsStarted # game.runsStarted
                => game'.deathCount = game.deathCount]_vars
    /\ [](game.deathCount <= game.runsStarted)

\* C9: a second run was started after the first death and has ended too.
C9_Witness ==
    /\ game.gameOver
    /\ game.deathCount = 2
    /\ game.runsStarted = 2

----------------------------------------------------------------------------
(* Lifecycle states, read off the overlays: the game-over modal is shown from
   triggerGameOver until restart, revive or reset hides it *)

InGameOver(g) == g.gameOver /\ ~g.modalHidden

InMenu(g) == ~g.runActive /\ ~g.menuHidden /\ g.modalHidden

\* C11: GameOver is left only by the restart button, which leads to the Menu,
\* or by a successful revive, which leads to Running; in GameOver a
\* pause-button click and a bribe change nothing, and no number of platform
\* resume callbacks lets the simulation run.
C11_GameOverExits ==
    /\ [][(InGameOver(game) /\ ~InGameOver(game')) =>
             \/ RestartClick /\ InMenu(game')
             \/ AdResolves("revive", TRUE) /\ Simulating(game')]_vars
    /\ [](game.gameOver =>
             /\ pauseButtonClick(game) = game
             /\ \A roll \in {0, 999} :
                   fireBribe([Cur EXCEPT !.r.freeRoll = roll], economy).g = game
             /\ \A n \in 1..NestDepth : ~Simulating(Resumes(game, n)))

\* C11, as the code has it: triggerGameOver shows the menu together with the
\* modal, so the start button is offered in GameOver.
C11_StartOfferedInGameOver ==
    /\ InGameOver(game)
    /\ ~game.menuHidden
    /\ Simulating(startNewRun(game, economy))

\* C12: a rewarded ad that completes with a reward after the game has left
\* GameOver (restart to the Menu, or a new run) has no effect: the step
\* changes the game only by the resume callback of the closing ad, and the
\* stored payload not at all.
C12_LateCompletionIgnored ==
    [][\A ad \in BagToSet(platform.ads) :
          (/\ ad.kind \in {"revive", "x2"}
           /\ ad.rewarded
           /\ ~InGameOver(game)
           /\ Commit(adFinish(Cur, economy, ad, TRUE)))
          => /\ game' = IF ad.opened THEN platformOnResume(game) ELSE game
             /\ localStorage' = localStorage]_vars

\* C12, as the code has it: the revive requested in an earlier GameOver has
\* completed during the next run and has set that run's balance to 50.
C12_StaleReviveApplied ==
    /\ platform.lastResolved = [kind |-> "revive", result |-> TRUE]
    /\ game.runActive /\ game.runsStarted = 2 /\ game.deathCount = 1
    /\ game.coinsBalance = ReviveCoins * 1000
    /\ game.reviveInvulnMs = REVIVE_INVULN_MS

\* what the specification asks load to return for a stored field: the
\* stored value if it is of the field's type, the default otherwise
FieldOrDefault(v, type, d) == IF v.t = type THEN v ELSE JNumber(d)

\* C13: load falls back field by field.  Of an object, each of bestScore
\* and walletCoins is the stored number, or the default if the field is
\* absent or not a number; upgrades are the stored levels over the defaults,
\* or the defaults if the field is absent or not an object; anything else
\* than an object yields the defaults.
C13_LoadFallsBackPerField ==
    LET item == localStorage
        data == loadItem(item)
    IN IF item.form = "object"
       THEN /\ data.bestScore
                 = FieldOrDefault(item.bestScore, "number", defaults.bestScore)
            /\ data.walletCoins
                 = FieldOrDefault(item.walletCoins, "number", defaults.walletCoins)
            /\ \A b \in Branches :
                  data.upgrades[b]
                     = IF item.upgrades.t = "object"
                       THEN FieldOrDefault(item.upgrades.v[b], "number",
                                           defaults.upgrades[b])
                       ELSE JNumber(defaults.upgrades[b])
       ELSE /\ data.bestScore = JNumber(defaults.bestScore)
            /\ data.walletCoins = JNumber(defaults.walletCoins)
            /\ \A b \in Branches : data.upgrades[b] = JNumber(defaults.upgrades[b])

\* C13, as the code has it: the game was constructed with a best score that
\* is a string, next to a wallet that is the stored number.
C13_StringKeptAsBestScore ==
    /\ game.saveData = loadItem(localStorage)
    /\ game.saveData.bestScore.t = "string"
    /\ game.saveData.walletCoins = JNumber(7)

----------------------------------------------------------------------------
(* C14 - C15: the active effects *)

RECURSIVE Power(_, _)
Power(b, n) == IF n = 0 THEN 1 ELSE b * Power(b, n - 1)

\* the product of the numeric values that the effects hold for key, taken
\* value by value: each value to the power of the number of its holders
ProductOfValues(effects, key) ==
    LET holders(v) == {i \in 1..Len(effects) : effects[i].effect[key] = JNumber(v)}
        values == {effects[i].effect[key].v :
                      i \in {j \in 1..Len(effects) : effects[j].effect[key].t = "number"}}
        RECURSIVE ProductOver(_)
        ProductOver(S) ==
            IF S = {} THEN 1
            ELSE LET v == CHOOSE x \in S : TRUE
                 IN Power(v, Cardinality(holders(v))) * ProductOver(S \ {v})
    IN ProductOver(values)

\* C14: the multiplier for a key is the product, over all active effects, of
\* their value for that key, an effect whose value is missing or not a
\* number counting as 1; without effects it is 1; the order of the effects
\* does not matter.
C14_MultiplierIsProduct ==
    \A key \in EffectKeys :
        /\ effectMultiplier(game, key) = ProductOfValues(game.effects, key)
        /\ game.effects = << >> => effectMultiplier(game, key) = 1
        /\ \A perm \in Permutations(1..Len(game.effects)) :
              effectMultiplier(
                  [game EXCEPT !.effects =
                      [i \in 1..Len(game.effects) |-> game.effects[perm[i]]]],
                  key) = effectMultiplier(game, key)

\* two numeric drain values are active, and for the collision penalty a
\* numeric value, a value that is not a number and a missing value
C14_Witness ==
    /\ Len(game.effects) = 3
    /\ effectMultiplier(game, "drainMultiplier") = 6
    /\ effectMultiplier(game, "collisionPenaltyMultiplier") = 2
    /\ \E i \in 1..Len(game.effects) :
          game.effects[i].effect["collisionPenaltyMultiplier"].t = "string"
    /\ \E i \in 1..Len(game.effects) :
          game.effects[i].effect["collisionPenaltyMultiplier"].t = "absent"

HasPermanent(g, id) ==
    \E i \in 1..Len(g.effects) : g.effects[i].permanent /\ g.effects[i].gateId = id

\* C15: applying a permanent gate whose id already has a permanent effect is
\* rejected and leaves the effects unchanged, for every permanent gate of the
\* configuration; so each permanent gate id has at most one permanent effect.
C15_PermanentAppliedOnce ==
    /\ \A n \in 1..Len(economy.gates) :
          LET gate == economy.gates[n]
          IN (gate.permanent /\ HasPermanent(game, gate.id))
                => applyGate(game, economy, gate).effects = game.effects
    /\ \A i, j \in 1..Len(game.effects) :
          (/\ i # j
           /\ game.effects[i].permanent /\ game.effects[j].permanent)
             => game.effects[i].gateId # game.effects[j].gateId

\* the permanent gate CURSE is active twice
C15_PermanentActiveTwice ==
    \E i, j \in 1..Len(game.effects) :
        /\ i < j
        /\ game.effects[i].permanent /\ game.effects[i].gateId = "CURSE"
        /\ game.effects[j].permanent /\ game.effects[j].gateId = "CURSE"

\* what C15 says holds for the gate DEBT
C15_DebtAppliedOnce ==
    /\ HasPermanent(game, "DEBT")
          => applyGate(game, economy, GateDebt).effects = game.effects
    /\ Cardinality({i \in 1..Len(game.effects) :
                       game.effects[i].permanent
                       /\ game.effects[i].gateId = "DEBT"}) <= 1
----------------------------------------------------------------------------
(* C16: the drain tiers *)

\* the configured tiers whose threshold has been reached
ReachedTiers(g, eco) ==
    {i \in 1..Len(eco.coinDrainTiers) :
        eco.coinDrainTiers[i].fromSec * 1000 <= g.elapsedMs}

\* the place, in ascending threshold order, of the tier whose rate is drained
SelectedIndex(g, eco) ==
    LET sorted == SortTiers(eco.coinDrainTiers)
    IN CHOOSE i \in 1..Len(sorted) : sorted[i].rate = currentDrainRate(g, eco)

\* C16: the drain rate at elapsed time t is the rate of the tier with the
\* greatest threshold <= t, whatever the configured order, and that rate
\* unchanged is what a tick drains per second; as t grows the selected tier
\* never moves backwards; with tiers (0,1), (30,2), (60,4) the rate is 1 at
\* 0 s, 2 at 45 s and 4 at 61 s.
C16_DrainRateIsLastTier ==
    /\ [](LET tiers == economy.coinDrainTiers
              reached == ReachedTiers(game, economy)
          IN reached # {} =>
                \E i \in reached :
                    /\ \A j \in reached : tiers[j].fromSec <= tiers[i].fromSec
                    /\ currentDrainRate(game, economy) = tiers[i].rate)
    /\ [](/\ game.elapsedMs = 0 => currentDrainRate(game, economy) = 1
          /\ game.elapsedMs = 45 * 1000 => currentDrainRate(game, economy) = 2
          /\ game.elapsedMs = 61 * 1000 => currentDrainRate(game, economy) = 4)
    /\ [][game'.elapsedMs >= game.elapsedMs =>
             SelectedIndex(game', economy) >= SelectedIndex(game, economy)]_vars
    /\ [][(SimulationStep /\ ~game'.gameOver) =>
             game'.coinsBalance =
                 game.coinsBalance
                 - currentDrainRate(game', economy)
                   * effectMultiplier(game, "drainMultiplier")
                   * (game'.elapsedMs - game.elapsedMs)]_vars

\* 61 s into a run whose configuration lists the 60 s tier first, 4 obols
\* per second are drained
C16_Witness ==
    /\ Simulating(game)
    /\ game.elapsedMs = 61 * 1000
    /\ economy.coinDrainTiers[1].fromSec = 60
    /\ economy.coinDrainTiers[2].fromSec = 0
    /\ currentDrainRate(game, economy) = 4
    /\ game.coinsBalance > 0
----------------------------------------------------------------------------
(* C17 - C20: the world *)

\* the length of the frame that a simulation step has run
FrameDt == game'.elapsedMs - game.elapsedMs

\* a simulation step that does not end the run
RunningStep == Simulating(game) /\ FrameDt > 0 /\ ~game'.gameOver

\* what the step drained, at the multiplier the step started with
Drained ==
    currentDrainRate(game', economy) * effectMultiplier(game, "drainMultiplier")
    * FrameDt

\* the entities of list that the step took out of the world before they
\* reached the line where they are culled: spawned plus present, less those
\* culled and those still there
GoneBeforeCull(list, listAfter, timer, cullY) ==
    Len(list) + (IF timer - FrameDt <= 0 THEN 1 ELSE 0)
    - Cardinality({i \in 1..Len(list) :
                      list[i].y + Step(forwardSpeed(game), FrameDt) >= cullY * Q})
    - Len(listAfter)

\* C17: a step that collects pickups adds, for each, base value x soul-value
\* multiplier x pickup-effect multiplier to the balance and 1 to the
\* collected count, and the same value and 1 again for each that is doubled;
\* a certain double chance doubles each, a zero chance none; the pickups
\* collected are gone from the world.  With base 10, soul-value multiplier 2
\* and pickup multiplier 1 the value is 20.
C17_PickupAward ==
    [][RunningStep =>
          LET taken == GoneBeforeCull(game.coins, game'.coins,
                                      game.coinSpawnTimer, HEIGHT + 30)
              value == economy.pickupValue * game.soulValueMult
                       * effectMultiplier(game, "pickupMultiplier")
              awards == game'.soulsCollected - game.soulsCollected
          IN /\ taken >= 0
             /\ awards >= taken /\ awards <= 2 * taken
             /\ game.doubleSoulChance = 1000 => awards = 2 * taken
             /\ game.doubleSoulChance = 0 => awards = taken
             /\ game'.coinsBalance = game.coinsBalance - Drained + awards * value
             /\ \A i \in 1..Len(game'.coins) : ~coinTaken(game', game'.coins[i])
             /\ (/\ economy.pickupValue = 10
                 /\ game.soulValueMult = 2000
                 /\ effectMultiplier(game, "pickupMultiplier") = 1)
                   => value = 20 * 1000]_vars

\* the first pickup of a run with soul-value multiplier 2 and a certain
\* double chance has awarded 20 + 20 and counts as two
C17_Witness ==
    /\ Simulating(game)
    /\ game.soulValueMult = 2000
    /\ game.doubleSoulChance = 1000
    /\ game.effects = << >>
    /\ game.soulsCollected = 2
    /\ game.coinsBalance = (400 + 20 + 20) * 1000 - 100 * game.elapsedMs

\* the shields at the moment of this step's collisions: update regenerates
\* before it resolves collisions
ShieldsAtCollision ==
    IF /\ game.shieldRegenSec > 0 /\ game.shieldCount < game.shieldMax
       /\ game.shieldRegenTimer - FrameDt <= 0
    THEN game.shieldCount + 1
    ELSE game.shieldCount

\* the obstacles that touch the boat once the step has moved them
Touching ==
    {i \in 1..Len(game.obstacles) :
        intersects(boatBody(game'),
                   [game.obstacles[i] EXCEPT
                       !.y = @ + Step(forwardSpeed(game), FrameDt)])}

\* C18: a step in which an obstacle collides with the boat, without
\* invulnerability, consumes exactly one shield, restarts the regeneration
\* timer and leaves the balance to the drain if there is a shield; without a
\* shield it takes basePenalty x obstacle damage x collision-penalty effect
\* multiplier x upgrade obstacle-damage multiplier off the balance and the
\* shield count stays 0.  A step without a collision consumes no shield and
\* takes no penalty.
C18_ObstacleCollision ==
    [][(RunningStep /\ game.reviveInvulnMs = 0) =>
          LET hits == GoneBeforeCull(game.obstacles, game'.obstacles,
                                     game.obstacleSpawnTimer, HEIGHT + 40)
          IN /\ hits = Cardinality(Touching)
             /\ hits = 0 =>
                   /\ game'.shieldCount = ShieldsAtCollision
                   /\ game'.coinsBalance = game.coinsBalance - Drained
             /\ (hits = 1 /\ ShieldsAtCollision > 0) =>
                   /\ game'.shieldCount = ShieldsAtCollision - 1
                   /\ game'.shieldRegenTimer = game.shieldRegenSec
                   /\ game'.coinsBalance = game.coinsBalance - Drained
             /\ (hits = 1 /\ ShieldsAtCollision = 0) =>
                   \E i \in Touching :
                       LET penalty ==
                               economy.collisionPenalty * game.obstacles[i].damage
                               * effectMultiplier(game, "collisionPenaltyMultiplier")
                               * game.obstacleDamageMult
                       IN /\ game'.shieldCount = 0
                          /\ game'.coinsBalance =
                                 game.coinsBalance - Drained - penalty
                          /\ (/\ game.obstacleDamageMult = 1000
                              /\ effectMultiplier(game, "collisionPenaltyMultiplier") = 1)
                                => penalty = economy.collisionPenalty
                                             * game.obstacles[i].damage * 1000]_vars

\* the only shield has absorbed one obstacle, and a second obstacle has cost
\* 5 x damage x 2 (CURSE) x 0.5 (the upgrade)
C18_Witness ==
    /\ Simulating(game)
    /\ game.shieldMax = 1
    /\ game.shieldCount = 0
    /\ game.obstacleDamageMult = 500
    /\ effectMultiplier(game, "collisionPenaltyMultiplier") = 2
    /\ \E damage \in {1, 3} :
          game.coinsBalance =
              400 * 1000 - 100 * game.elapsedMs - 5 * damage * 2 * 500

\* the gate pairs that the step resolves
Resolved ==
    {i \in 1..Len(game.gates) :
        /\ i <= Len(game'.gates)
        /\ ~game.gates[i].chosen /\ game'.gates[i].chosen}

\* the zones of a gate pair, in pixels: 170 wide, GATE_GAP either side of the
\* middle
LeftZone == [from |-> WIDTH \div 2 - GATE_GAP - 170, to |-> WIDTH \div 2 - GATE_GAP]
RightZone == [from |-> WIDTH \div 2 + GATE_GAP, to |-> WIDTH \div 2 + GATE_GAP + 170]

Inside(x, zone) == x >= zone.from * Q /\ x <= zone.to * Q

\* twice the distance from x to the center of the zone
FromCenter2(x, zone) == Abs(2 * x - (zone.from + zone.to) * Q)

\* C19: the option applied when a gate pair is resolved is the left one if
\* the boat's x is inside the left zone, the right one if it is inside the
\* right zone, and otherwise the one whose zone center is nearer to the
\* boat's x, the left one at equal distances.
C19_GateChoice ==
    [][RunningStep =>
          \A i \in Resolved :
              LET x == game'.player.x
                  gate == game.gates[i]
                  option ==
                      IF Inside(x, LeftZone) THEN gate.left
                      ELSE IF Inside(x, RightZone) THEN gate.right
                      ELSE IF FromCenter2(x, LeftZone) < FromCenter2(x, RightZone)
                      THEN gate.left
                      ELSE IF FromCenter2(x, LeftZone) > FromCenter2(x, RightZone)
                      THEN gate.right
                      ELSE gate.left
              IN /\ Resolved = {i}
                 /\ game'.effects =
                        updateEffects(applyGate(game, economy, option), FrameDt).effects
                 /\ Len(game'.effects) = Len(updateEffects(game, FrameDt).effects) + 1
                 /\ game'.effects[Len(game'.effects)].gateId = option.id]_vars

\* with the boat exactly in the middle, the pair PLENTY (left), HASTE (right)
\* has just been resolved to PLENTY
C19_Witness ==
    /\ Simulating(game)
    /\ game.player.x = (WIDTH \div 2) * Q
    /\ Len(game.gates) >= 1
    /\ game.gates[1].chosen
    /\ game.gates[1].left.id = "PLENTY" /\ game.gates[1].right.id = "HASTE"
    /\ Len(game.effects) = 1
    /\ game.effects[1].gateId = "PLENTY"
    /\ game.effects[1].remainingMs = economy.gateDurationSec - MaxStepMs

\* C20: within one update tick the drain is computed after that tick's gate
\* applications and effect expiries: what a tick takes off the balance is
\* the drain rate times the drain multiplier of the effects active at the
\* end of the tick.
C20_DrainUsesEndOfTickEffects ==
    [][RunningStep =>
          game'.coinsBalance =
              game.coinsBalance
              - currentDrainRate(game', economy)
                * effectMultiplier(game', "drainMultiplier") * FrameDt]_vars

\* PLENTY, which doubles the drain, is in effect since the last tick, and
\* that tick has drained at the single rate
C20_DrainedBeforeGate ==
    /\ Simulating(game)
    /\ Len(game.effects) = 1
    /\ game.effects[1].gateId = "PLENTY"
    /\ game.effects[1].remainingMs = economy.gateDurationSec - MaxStepMs
    /\ effectMultiplier(game, "drainMultiplier") = 2
    /\ game.coinsBalance = 400 * 1000 - 100 * game.elapsedMs

\* what the code does: a tick drains at the multiplier of the effects active
\* when the tick starts
C20_DrainUsesStartOfTickEffects ==
    [][RunningStep =>
          game'.coinsBalance = game.coinsBalance - Drained]_vars

----------------------------------------------------------------------------
(* Upgrade configurations.  A game boots with stored levels from 0 to past
   the last level of a branch, under a configuration whose effect values
   are negative, zero, small, large or missing. *)

\* the values configured for a key of UpgradeEffect, in thousandths,
\* milliseconds or quarter-pixels as the key has it
EffectValues == << -500, 0, 50, 1500, 2500 >>

\* the keys of UpgradeEffect that applyMetaUpgradesForRun reads of a branch
UpgradeKeys ==
    [defense |-> << "shieldStart", "shieldRegenSec", "obstacleDamageMult" >>,
     farm |-> << "magnetMult", "soulValueMult", "doubleSoulChance" >>,
     skills |-> << "bribeCooldownMult", "freeBribeEverySec", "bribeSplashRadius" >>]

\* the ways to configure the effect of a level
EffectDraws == 0..Len(EffectValues)

\* The effect of a level under draw k: the i-th key of the branch has the
\* value numbered (k + i) modulo the number of draws, and is missing when
\* that number is 0.
DrawnEffect(keys, k) ==
    LET at(i) == (k + i) % (Len(EffectValues) + 1)
        present == {i \in 1..Len(keys) : at(i) # 0}
    IN [key \in {keys[i] : i \in present} |->
           EffectValues[at(CHOOSE i \in present : keys[i] = key)]]

\* config.upgrades with two levels a branch, drawn as first and last
DrawnBranches(first, last) ==
    LET branch(id) ==
            [id |-> id,
             levels |-> << [cost |-> 10, effect |-> DrawnEffect(UpgradeKeys[id], first)],
                           [cost |-> 20, effect |-> DrawnEffect(UpgradeKeys[id], last)] >>]
    IN << branch("defense"), branch("farm"), branch("skills") >>

InitUpgrades ==
    \E first \in EffectDraws, last \in EffectDraws :
        InitWith([FastEconomy EXCEPT !.upgrades = DrawnBranches(first, last)],
                 {"noop"},
                 {Payload([defaults EXCEPT !.upgrades = levels])
                     : levels \in [Branches -> 0..MaxStoredLevel]})

NextUpgrades ==
    \/ StartRunClick(MaxDeathsOne, MaxAds)
    \/ LoopFrame

SpecUpgrades == InitUpgrades /\ [][NextUpgrades]_vars

----------------------------------------------------------------------------
(* The shop.  A game boots with 30 obols in the wallet; one run, its
   settlement, the doubling of its earnings by a rewarded ad, and purchases
   in the menu. *)

InitShop == InitWith(FastEconomy, {"noop", "yandex"}, {StoredWallet})

NextShop ==
    \/ StartRunClick(MaxDeathsOne, MaxAds)
    \/ RestartClick
    \/ BuyUpgradeClick
    \/ RewardX2Click(MaxAds)
    \/ AdOpen
    \/ AdRewarded
    \/ AdClose
    \/ LoopFrame

SpecShop == InitShop /\ [][NextShop]_vars

----------------------------------------------------------------------------
(* Run after run.  Two runs in the world, the first of which leaves
   entities, projectiles, a gate pair and permanent effects behind. *)

\* the gate pair is DEBT, CURSE: both effects are permanent
RestartDraws == {[DefaultDraw EXCEPT !.gatePair = << 3, 4 >>]}

InitRestart == InitWith(WorldEconomy, {"noop", "yandex"}, {NoPayload})

NextRestart ==
    \/ StartRunClick(MaxDeaths, MaxAds)
    \/ RestartClick
    \/ BribeButtonClick({DefaultDraw.freeRoll})
    \/ Frame({MaxStepMs}, RestartDraws)

SpecRestart == InitRestart /\ [][NextRestart]_vars

----------------------------------------------------------------------------
(* Stacked speed.  The boat stays in the middle, which chooses the left
   gate of every pair that comes within reach. *)

InitRush == InitWith(RushEconomy, {"noop", "yandex"}, {NoPayload})

NextRush ==
    \/ StartRunClick(MaxDeathsOne, MaxAds)
    \/ LoopFrame

SpecRush == InitRush /\ [][NextRush]_vars

\* The shield scenario: 600 obols drained at 100 per second; the first
\* defense level gives one shield and a charge every 0.8 s, the second two
\* shields that are not regenerated.
ShieldEconomy ==
    [WorldEconomy EXCEPT
        !.startCoins = 600,
        !.upgrades[1].levels =
            << [cost |-> 10, effect |-> [shieldStart |-> 1000,
                                         shieldRegenSec |-> 800]],
               [cost |-> 20, effect |-> [shieldStart |-> 2000]] >>]

\* Obstacles of the first template spawn every 0.8 s, at the left edge or in
\* the middle.
ShieldDraws ==
    {[DefaultDraw EXCEPT !.obstacleInterval = 0, !.obstacleX = x,
                         !.gatePair = << 4, 1 >>]
        : x \in {0, 500}}

InitShield ==
    \E payload \in StoredLevels("defense") :
        InitWith(ShieldEconomy, {"noop"}, {payload})

NextShield ==
    \/ StartRunClick(MaxDeaths, MaxAds)
    \/ RestartClick
    \/ Frame({MaxStepMs}, ShieldDraws)

SpecShield == InitShield /\ [][NextShield]_vars

\* The best score: a stored best of InitialBest or none, runs that end, the
\* x2 reward and progress resets, on either platform.
InitBest == InitWith(FastEconomy, {"noop", "yandex"}, {NoPayload, StoredBest})

NextBest ==
    \/ StartRunClick(MaxDeaths, MaxAds)
    \/ RestartClick
    \/ RewardX2Click(MaxAds)
    \/ AdOpen
    \/ AdRewarded
    \/ AdClose
    \/ ProgressResetClick(MaxResets)
    \/ CloudSaveSettled
    \/ LoopFrame

SpecBest == InitBest /\ [][NextBest]_vars

----------------------------------------------------------------------------
(* C21 - C30 *)

\* C21: a tick takes dt off the remaining duration of every effect that is
\* not permanent and removes the effect once that is zero or below, so no
\* listed effect has run out; a permanent effect is left as it is, and stays
\* listed through every step that does not start a new run.
C21_EffectDecay ==
    /\ [][EffectsDecay =>
             \E dt \in DtChoices :
                 LET kept == {i \in 1..Len(game.effects) :
                                 \/ game.effects[i].permanent
                                 \/ game.effects[i].remainingMs - dt > 0}
                     place(i) == Cardinality({k \in kept : k <= i})
                 IN /\ Len(game'.effects) = Cardinality(kept)
                    /\ \A i \in kept :
                          game'.effects[place(i)] =
                              IF game.effects[i].permanent THEN game.effects[i]
                              ELSE [game.effects[i] EXCEPT
                                       !.remainingMs = @ - dt]]_vars
    /\ [][game'.runsStarted = game.runsStarted =>
             \A i \in 1..Len(game.effects) :
                 game.effects[i].permanent =>
                     \E j \in 1..Len(game'.effects) :
                         game'.effects[j] = game.effects[i]]_vars
    /\ [](\A i \in 1..Len(game.effects) :
             ~game.effects[i].permanent => game.effects[i].remainingMs > 0)

\* DEBT, permanent, is still in effect, untouched, while HASTE, applied after
\* it, has decayed from 100 to 25 ms
C21_Witness ==
    /\ Len(game.effects) = 2
    /\ game.effects[1].gateId = "DEBT"
    /\ game.effects[1].permanent
    /\ game.effects[1].remainingMs = 0
    /\ game.effects[2].gateId = "HASTE"
    /\ game.effects[2].remainingMs = 25
\* the regeneration timer at the moment of this step's collisions
RegenTimerAtCollision ==
    IF game.shieldRegenSec > 0 /\ game.shieldCount < game.shieldMax
    THEN IF game.shieldRegenTimer - FrameDt <= 0
         THEN game.shieldRegenSec
         ELSE game.shieldRegenTimer - FrameDt
    ELSE game.shieldRegenTimer

Decayed(effects, dt) ==
    LET aged == [i \in 1..Len(effects) |->
                    IF effects[i].permanent THEN effects[i]
                    ELSE [effects[i] EXCEPT !.remainingMs = @ - dt]]
    IN SelectSeq(aged, LAMBDA e : e.permanent \/ e.remainingMs > 0)

\* C23: a simulation step evaluates a gate pair only if the pair is not
\* chosen and, once moved, within GATE_HEIGHT of the boat; it marks the pair
\* chosen and applies one of its two options, which a duplicate DEBT leaves
\* without effect.  A pair stays chosen, and a step that evaluates no pair
\* applies no option, however near a chosen pair is.
C23_GateAppliedOnce ==
    [][RunningStep =>
          LET moved(i) == game.gates[i].y + Step(forwardSpeed(game), FrameDt)
              culled == {i \in 1..Len(game.gates) : moved(i) >= (HEIGHT + 80) * Q}
              at(i) == i - Cardinality({j \in culled : j < i})
              inReach(i) == Abs(moved(i) - game.player.y) <= GATE_HEIGHT * Q
              evaluated == {i \in 1..Len(game.gates) \ culled :
                               ~game.gates[i].chosen /\ inReach(i)}
          IN /\ \A i \in 1..Len(game.gates) \ culled :
                   game'.gates[at(i)].chosen = (game.gates[i].chosen \/ inReach(i))
             /\ Cardinality(evaluated) <= 1
             /\ evaluated = {} =>
                   game'.effects = Decayed(game.effects, FrameDt)
             /\ \A i \in evaluated :
                   \E option \in {game.gates[i].left, game.gates[i].right} :
                       game'.effects =
                           Decayed(IF option.id = "DEBT" /\ HasPermanent(game, "DEBT")
                                   THEN game.effects
                                   ELSE Append(game.effects,
                                               [gateId |-> option.id,
                                                effect |-> option.effects,
                                                permanent |-> option.permanent,
                                                remainingMs |->
                                                    IF option.permanent THEN 0
                                                    ELSE economy.gateDurationSec]),
                                   FrameDt)]_vars

\* The second pair of the run has been chosen with the boat in the left
\* zone, DEBT's, and is past the boat: DEBT, applied by the first pair (or
\* CURSE would be in effect), is in effect once, and nothing else is.
C23_Witness ==
    /\ Simulating(game)
    /\ game.elapsedMs >= 5400
    /\ Len(game.effects) = 1
    /\ game.effects[1].gateId = "DEBT"
    /\ \E i \in 1..Len(game.gates) :
          /\ game.gates[i].chosen
          /\ game.gates[i].left.id = "DEBT"
          /\ game.gates[i].y > game.player.y + GATE_HEIGHT * Q
\* the obstacles in the world when this step comes to its projectiles: those
\* there were and the one the step spawns in the middle, moved, without
\* those culled and those that the boat has run into
ObstaclesAtShots ==
    LET spawned == IF game.obstacleSpawnTimer - FrameDt <= 0
                   THEN << [x |-> (WIDTH \div 2) * Q, y |-> -40 * Q,
                            r |-> ObstacleTemplates[1].radius * Q,
                            damage |-> ObstacleTemplates[1].damage] >>
                   ELSE << >>
        all == game.obstacles \o spawned
        moved == [i \in 1..Len(all) |->
                     [all[i] EXCEPT !.y = @ + Step(forwardSpeed(game), FrameDt)]]
    IN SelectSeq(moved, LAMBDA o : /\ o.y < (HEIGHT + 40) * Q
                                   /\ ~intersects(boatBody(game'), o))

\* the projectiles of this step, moved, without those that left the world
ProjectilesAtShots ==
    LET moved == [i \in 1..Len(game.projectiles) |->
                     [game.projectiles[i] EXCEPT
                         !.y = @ - Step(game.projectiles[i].speed, FrameDt)]]
    IN SelectSeq(moved, LAMBDA p : p.y > -20 * Q)

\* the projectiles that intersect an obstacle
Hitting ==
    {k \in 1..Len(ProjectilesAtShots) :
        \E j \in 1..Len(ObstaclesAtShots) :
            intersects(ProjectilesAtShots[k], ObstaclesAtShots[j])}
\* seq without the elements at the indexes in drop
Without(seq, drop) ==
    LET keep == (1..Len(seq)) \ drop
        nth(i) == CHOOSE k \in keep : Cardinality({m \in keep : m <= k}) = i
    IN [i \in 1..Cardinality(keep) |-> seq[nth(i)]]

\* C24: a projectile that intersects an obstacle leaves the world in that
\* step together with the first obstacle it intersects and, if the splash
\* radius is above 0, with every other obstacle within that radius of the
\* obstacle hit; with a splash radius of 0 that obstacle is the only one to
\* go.  A step whose projectiles intersect no obstacle keeps them all.
C24_ProjectileHit ==
    [][(Simulating(game) /\ FrameDt > 0 /\ Cardinality(Hitting) <= 1) =>
          LET O == ObstaclesAtShots
              P == ProjectilesAtShots
          IN /\ Hitting = {} =>
                   /\ game'.projectiles = P
                   /\ game'.obstacles = O
             /\ \A k \in Hitting :
                   LET targets == {j \in 1..Len(O) : intersects(P[k], O[j])}
                       first == CHOOSE j \in targets : \A i \in targets : j <= i
                       inSplash == {j \in 1..Len(O) :
                                       distanceSq(O[j], O[first])
                                           <= game.bribeSplashRadius
                                              * game.bribeSplashRadius}
                       gone == IF game.bribeSplashRadius > 0
                               THEN {first} \cup inSplash
                               ELSE {first}
                   IN /\ game'.projectiles = Without(P, {k})
                      /\ game'.obstacles = Without(O, gone)
                      /\ game.bribeSplashRadius = 0 =>
                            Len(game'.obstacles) = Len(O) - 1]_vars
\* 2.2 s into a run whose shots were free, with a splash radius of 200
\* pixels: of the three obstacles spawned, one shot has taken the lowest and
\* the one 120 pixels above it, and has left the one 240 pixels above it.
C24_Witness ==
    /\ Simulating(game)
    /\ game.elapsedMs = 2200
    /\ game.coinsBalance = 260 * 1000 - 100 * game.elapsedMs
    /\ game.bribeSplashRadius = 200 * Q
    /\ Len(game.obstacles) = 1
\* C25: a bribe attempt made while the game is paused, in GameOver or
\* without a run, or during the cooldown, changes nothing; so does every
\* attempt that spawns no projectile, and an attempt made without a free
\* shot ready and with less than the cost spawns one only if it is free by
\* chance, at no cost.
C25_RejectedBribe ==
    [][BribeButtonClick(FreeRolls) =>
          LET rejected == \/ game.paused \/ game.gameOver \/ ~game.runActive
                          \/ game.bribeCooldownLeftSec > 0
              short == /\ ~game.freeBribeReady
                       /\ game.coinsBalance < economy.bribeShotCost * 1000
          IN /\ rejected => game' = game
             /\ Len(game'.projectiles) = Len(game.projectiles) => game' = game
             /\ (short /\ game' # game) =>
                   /\ game'.coinsBalance = game.coinsBalance
                   /\ economy.freeBribeChance > 0
             /\ localStorage' = localStorage]_vars

\* a run in which an attempt now is rejected for want of obols: no cooldown,
\* no free shot ready, and less than the cost of 30 left
C25_Witness ==
    /\ Simulating(game)
    /\ game.bribeCooldownLeftSec = 0
    /\ ~game.freeBribeReady
    /\ game.coinsBalance > 0
    /\ game.coinsBalance < economy.bribeShotCost * 1000
    /\ game.projectiles # << >>
\* the step is a bribe attempt in which Math.random gave roll, and it has
\* spawned a projectile
ShotWith(roll) ==
    /\ game' = fireBribe([Cur EXCEPT !.r.freeRoll = roll], economy).g
    /\ Len(game'.projectiles) = Len(game.projectiles) + 1

\* C26: a shot whose free-chance roll succeeds leaves the ready flag and the
\* timer of the periodic free shot as they were, also if a periodic free
\* shot is ready.
C26_ChanceKeepsPeriodic ==
    [][\A roll \in FreeRolls :
          (ShotWith(roll) /\ roll < economy.freeBribeChance) =>
              /\ game'.freeBribeReady = game.freeBribeReady
              /\ game'.freeBribeTimerSec = game.freeBribeTimerSec]_vars

\* C26, as the code has it: a periodic free shot was ready, the shot just
\* fired was free by its roll or by the timer alike, and it has taken the
\* periodic one: the flag is cleared and the timer restarted.
C26_PeriodicConsumed ==
    /\ Simulating(game)
    /\ game.freeBribeEverySec > 0
    /\ ~game.freeBribeReady
    /\ game.freeBribeTimerSec = game.freeBribeEverySec
    /\ game.bribeCooldownLeftSec =
           (BASE_BRIBE_COOLDOWN_SEC * game.bribeCooldownMult) \div 1000
    /\ \E i \in 1..Len(game.projectiles) :
          game.projectiles[i].y = game.player.y - 20 * Q

\* What holds of the periodic free shot: a shot fired while none is ready
\* leaves flag and timer alone, whatever its roll; a shot fired while one is
\* ready clears the flag and restarts the timer, whatever its roll.
C26_PeriodicTakenWhenReady ==
    [][\A roll \in FreeRolls :
          ShotWith(roll) =>
              IF game.freeBribeReady
              THEN /\ ~game'.freeBribeReady
                   /\ game'.freeBribeTimerSec = game.freeBribeEverySec
              ELSE /\ ~game'.freeBribeReady
                   /\ game'.freeBribeTimerSec = game.freeBribeTimerSec]_vars
\* C27: a bribe attempt that succeeds is made with the cooldown over, spawns
\* one projectile, at the boat, sets the cooldown to 450 ms x the upgrade
\* cooldown multiplier and takes the cost off the balance iff neither the
\* roll nor the periodic timer made it free; the balance stays at or above
\* 0, and every projectile of an earlier shot has by then flown for at least
\* the cooldown.
C27_SuccessfulBribe ==
    [][\A roll \in FreeRolls :
          ShotWith(roll) =>
              LET free == roll < economy.freeBribeChance \/ game.freeBribeReady
                  cooldown == (450 * game.bribeCooldownMult) \div 1000
                  muzzle == game.player.y - 20 * Q
              IN /\ game.bribeCooldownLeftSec = 0
                 /\ game'.projectiles =
                        Append(game.projectiles,
                               [x |-> game.player.x, y |-> muzzle,
                                r |-> 8 * Q, speed |-> 450])
                 /\ game'.bribeCooldownLeftSec = cooldown
                 /\ game'.coinsBalance =
                        IF free THEN game.coinsBalance
                        ELSE game.coinsBalance - economy.bribeShotCost * 1000
                 /\ game'.coinsBalance >= 0
                 /\ \A i \in 1..Len(game.projectiles) :
                       (muzzle - game.projectiles[i].y) * 1000
                           >= 450 * Q * cooldown]_vars

\* with the cooldown multiplier 0.6 of skills level 1, a shot has just been
\* fired 300 ms, six frames, after the one before: the cooldown is 270 ms
C27_Witness ==
    /\ Simulating(game)
    /\ game.bribeCooldownMult = 600
    /\ game.bribeCooldownLeftSec = 270
    /\ Len(game.projectiles) = 2
    /\ game.projectiles[2].y = game.player.y - 20 * Q
    /\ game.projectiles[1].y = game.projectiles[2].y - 6 * Step(450, MaxStepMs)
\* C28: whenever no progress reset is under way, the stored payload is the
\* MetaProgress in memory.
C28_WrittenThrough ==
    platform.resets = 0 => load(localStorage) = game.saveData

\* C28, as the code has it: an upgrade was bought while the cloud save of a
\* progress reset was in flight; the reset is over, the MetaProgress in
\* memory is the defaults, and the stored payload is the old progress with
\* the purchase.
C28_ResetLostToPurchase ==
    /\ platform.resets = 0
    /\ game.saveData = defaults
    /\ localStorage.present
    /\ localStorage.walletCoins = 20
    /\ \E branchId \in Branches : localStorage.upgrades[branchId] = 1

\* What holds on the platform without cloud save: the stored payload is the
\* MetaProgress in memory.
C28_WrittenThroughLocally ==
    platform.kind = "noop" => load(localStorage) = game.saveData

\* the values that applyMetaUpgradesForRun takes into a run
Snapshot(g) ==
    [shieldMax |-> g.shieldMax, shieldRegenSec |-> g.shieldRegenSec,
     obstacleDamageMult |-> g.obstacleDamageMult,
     magnetMult |-> g.magnetMult, soulValueMult |-> g.soulValueMult,
     doubleSoulChance |-> g.doubleSoulChance,
     bribeCooldownMult |-> g.bribeCooldownMult,
     freeBribeEverySec |-> g.freeBribeEverySec,
     bribeSplashRadius |-> g.bribeSplashRadius]

\* multipliers 1, everything else 0
NeutralBundle ==
    [shieldMax |-> 0, shieldRegenSec |-> 0, obstacleDamageMult |-> 1000,
     magnetMult |-> 1000, soulValueMult |-> 1000, doubleSoulChance |-> 0,
     bribeCooldownMult |-> 1000, freeBribeEverySec |-> 0,
     bribeSplashRadius |-> 0]

\* the values of the snapshot that come of a branch
BranchValues ==
    [defense |-> {"shieldMax", "shieldRegenSec", "obstacleDamageMult"},
     farm |-> {"magnetMult", "soulValueMult", "doubleSoulChance"},
     skills |-> {"bribeCooldownMult", "freeBribeEverySec", "bribeSplashRadius"}]

\* the number of levels that config.upgrades gives a branch
LastLevel(branchId) ==
    Len(SelectSeq(economy.upgrades, LAMBDA item : item.id = branchId)[1].levels)

\* C29: whatever effect values are configured (negative, zero, missing
\* ones among them), the snapshot that a run start takes has an
\* obstacle-damage and a soul-value multiplier of at least 0.1, a magnet
\* multiplier of at least 1, a bribe-cooldown multiplier of at least 0.2, a
\* double-pickup chance from 0 to 1, and a shield capacity, shield regen,
\* free-shot period and splash radius of at least 0; a branch at level 0
\* gives the neutral values, and a branch stored above its last level gives
\* what its last level gives.
C29_RunSnapshot ==
    [][game'.runsStarted = game.runsStarted + 1 =>
          LET taken == Snapshot(game')
              stored == game.saveData.upgrades
          IN /\ taken.obstacleDamageMult >= 100
             /\ taken.soulValueMult >= 100
             /\ taken.magnetMult >= 1000
             /\ taken.bribeCooldownMult >= 200
             /\ taken.doubleSoulChance >= 0
             /\ taken.doubleSoulChance <= 1000
             /\ taken.shieldMax >= 0
             /\ taken.shieldRegenSec >= 0
             /\ taken.freeBribeEverySec >= 0
             /\ taken.bribeSplashRadius >= 0
             /\ \A b \in Branches :
                   stored[b] = 0 =>
                       \A v \in BranchValues[b] : taken[v] = NeutralBundle[v]
             /\ \A b \in Branches :
                   stored[b] > LastLevel(b) =>
                       LET atLast == [game EXCEPT
                                         !.saveData.upgrades[b] = LastLevel(b)]
                           ofLast == Snapshot(applyMetaUpgradesForRun(atLast, economy))
                       IN \A v \in BranchValues[b] : taken[v] = ofLast[v]]_vars

\* A run was started with defense stored above its last level, which
\* configures 2.5 shields, no regen and a damage multiplier of -0.5, with
\* farm at level 0, and with skills at a first level that configures a
\* cooldown multiplier of 0, a free-shot period of 0.05 s and a splash radius
\* of 1500.
C29_Witness ==
    LET defense == economy.upgrades[1].levels[2].effect
        skills == economy.upgrades[3].levels[1].effect
    IN /\ game.runsStarted = 1
       /\ game.saveData.upgrades["defense"] > 2
       /\ game.saveData.upgrades["farm"] = 0
       /\ game.saveData.upgrades["skills"] = 1
       /\ DOMAIN defense = {"shieldStart", "obstacleDamageMult"}
       /\ defense.shieldStart = 2500
       /\ defense.obstacleDamageMult = -500
       /\ DOMAIN skills = {"bribeCooldownMult", "freeBribeEverySec", "bribeSplashRadius"}
       /\ skills.bribeCooldownMult = 0
       /\ game.shieldMax = 2
       /\ game.shieldRegenSec = 0
       /\ game.obstacleDamageMult = 100
       /\ game.magnetMult = 1000
       /\ game.soulValueMult = 1000
       /\ game.doubleSoulChance = 0
       /\ game.bribeCooldownMult = 200
       /\ game.freeBribeEverySec = 50
       /\ game.bribeSplashRadius = 1500

\* the callbacks of game_api_pause leave the game as it is
SignalIgnored == gameApiPause(Cur).g = game

\* the snapshot of paused and muted changes only in a pause at depth 0,
\* which takes it of the state before
SnapshotAtOutermost ==
    LET before == << game.wasPausedBeforePlatformPause,
                     game.wasMutedBeforePlatformPause >>
        after == << game'.wasPausedBeforePlatformPause,
                    game'.wasMutedBeforePlatformPause >>
    IN /\ after # before =>
              game.platformPauseDepth = 0 /\ game'.platformPauseDepth = 1
       /\ game.platformPauseDepth = 0 /\ game'.platformPauseDepth = 1 =>
              after = << game.paused, game.muted >>

\* A step brings the depth of platform pauses back to 0, and the ad that it
\* closes, if any, is not followed by a run start or a revive (either sets
\* paused and muted anew).
ReturnsToZero ==
    /\ game.platformPauseDepth > 0
    /\ game'.platformPauseDepth = 0
    /\ platform'.lastResolved.kind # "start"
    /\ platform'.lastResolved # [kind |-> "revive", result |-> TRUE]

\* C30 as stated: with an ad in flight a platform suspend signal does not
\* invoke the pause callbacks; the snapshot of paused and muted is taken at
\* the outermost pause only; and when the depth is back at 0, paused and
\* muted are as the snapshot has them.
C30_RestoredFromSnapshot ==
    /\ [](platform.adDepth > 0 => SignalIgnored)
    /\ [][SnapshotAtOutermost]_vars
    /\ [][ReturnsToZero =>
              /\ game'.muted = game.wasMutedBeforePlatformPause
              /\ game'.paused = game.wasPausedBeforePlatformPause]_vars

\* One platform pause is pending whose snapshot has paused false, and the
\* user's pause is on: the resume callback leaves the game paused.
C30_UserPauseKept ==
    /\ game.platformPauseDepth = 1
    /\ ~game.wasPausedBeforePlatformPause
    /\ game.manualPaused
    /\ ~game.gameOver
    /\ platformOnResume(game).paused

\* C30, amended: with an ad in flight a platform suspend signal does not
\* invoke the pause callbacks; the snapshot of paused and muted is taken at
\* the outermost pause only; and when the depth is back at 0, muted is as
\* the snapshot has it and paused is true exactly if the game is over, the
\* user's pause is on or the snapshot has paused true.
C30_RestoredUnlessHeld ==
    /\ [](platform.adDepth > 0 => SignalIgnored)
    /\ [][SnapshotAtOutermost]_vars
    /\ [][ReturnsToZero =>
              /\ game'.muted = game.wasMutedBeforePlatformPause
              /\ game'.paused = (\/ game.gameOver
                                 \/ game.manualPaused
                                 \/ game.wasPausedBeforePlatformPause)]_vars

\* An ad is open, so that a suspend signal is ignored, and its pause is
\* nested in an earlier platform pause, which found the run going: the
\* snapshot has paused false although the game was paused, and over, when the
\* ad opened.
C30_Witness ==
    /\ platform.adDepth > 0
    /\ \E ad \in BagToSet(platform.ads) : ad.opened
    /\ SignalIgnored
    /\ game.platformPauseDepth = 2
    /\ game.gameOver
    /\ game.paused
    /\ ~game.wasPausedBeforePlatformPause

----------------------------------------------------------------------------
(* C31 - C40 *)

\* the levels that config.upgrades gives a branch
LevelsOf(branchId) ==
    SelectSeq(economy.upgrades, LAMBDA item : item.id = branchId)[1].levels

\* the branch has a next level and the wallet is at least its cost
Affordable(branchId) ==
    LET level == game.saveData.upgrades[branchId]
    IN /\ level < Len(LevelsOf(branchId))
       /\ game.saveData.walletCoins >= LevelsOf(branchId)[level + 1].cost

\* C31: a purchase succeeds only if the branch has a next level and the
\* wallet is at least that level's cost; it takes exactly the cost off the
\* wallet and raises that branch's level by exactly 1, the other levels
\* staying; a click on a branch that has no next level, or one the wallet
\* does not pay for, changes neither the wallet nor the levels nor what is
\* stored; and the wallet is never negative and no level is above the number
\* of levels of its branch.
C31_Purchase ==
    /\ [](/\ game.saveData.walletCoins >= 0
          /\ \A b \in Branches :
                /\ game.saveData.upgrades[b] <= Len(LevelsOf(b))
                /\ ~Affordable(b) =>
                      /\ buyUpgrade(Cur, economy, b).g = game
                      /\ buyUpgrade(Cur, economy, b).ls = localStorage)
    /\ [][LET before == game.saveData
              after == game'.saveData
          IN (\/ after.upgrades # before.upgrades
              \/ after.walletCoins < before.walletCoins) =>
                 \E b \in Branches :
                    /\ Affordable(b)
                    /\ after.upgrades =
                          [before.upgrades EXCEPT ![b] = @ + 1]
                    /\ after.walletCoins =
                          before.walletCoins
                              - LevelsOf(b)[before.upgrades[b] + 1].cost
                    /\ after.bestScore = before.bestScore]_vars

\* After a run and its settlement the last level of a branch is bought and
\* the wallet does not pay for a first level of another.
C31_Witness ==
    /\ game.deathCount = 1
    /\ game.saveData.walletCoins > 0
    /\ \E b \in Branches : game.saveData.upgrades[b] = Len(LevelsOf(b))
    /\ \E b \in Branches : game.saveData.upgrades[b] = 0 /\ ~Affordable(b)

\* C32: a run start leaves elapsed time and distance at 0, the balance at
\* the configured starting coins, the collected count and the session
\* earnings at 0, the lists of obstacles, pickups, projectiles and gates and
\* the list of effects, permanent ones included, empty, gameOver and paused
\* false and the gate timer at the first-gate delay; it changes neither the
\* saved progress nor the death count.
C32_RunStartResets ==
    [][game'.runsStarted = game.runsStarted + 1 =>
          /\ game'.elapsedMs = 0
          /\ game'.distance = 0
          /\ game'.coinsBalance = economy.startCoins * 1000
          /\ game'.soulsCollected = 0
          /\ game'.sessionEarningsBase = 0
          /\ game'.obstacles = << >>
          /\ game'.coins = << >>
          /\ game'.projectiles = << >>
          /\ game'.gates = << >>
          /\ game'.effects = << >>
          /\ ~game'.gameOver
          /\ ~game'.paused
          /\ game'.gateSpawnTimer = firstGateDelaySec(economy)
          /\ game'.saveData = game.saveData
          /\ game'.deathCount = game.deathCount]_vars

\* The second run has begun: nothing of the first is left but its death and
\* its earnings in the wallet.
C32_Witness ==
    /\ game.runsStarted = 2
    /\ game.runActive
    /\ game.elapsedMs = 0
    /\ game.effects = << >>
    /\ game.obstacles = << >>
    /\ game.deathCount = 1
    /\ game.saveData.walletCoins > 0

\* C33: a game that is over is paused, has no active run and a balance of
\* 0; an active run is not over.
C33_GameOverIsAtRest ==
    /\ game.gameOver =>
          /\ game.paused
          /\ ~game.runActive
          /\ game.coinsBalance = 0
    /\ game.runActive => ~game.gameOver

\* The restart button has brought the menu back after a death: the game is
\* still over, and no platform pause is pending.
C33_Witness ==
    /\ game.gameOver
    /\ game.deathCount = 1
    /\ game.modalHidden
    /\ ~game.menuHidden
    /\ game.platformPauseDepth = 0
    /\ game.paused
    /\ game.coinsBalance = 0

\* C34: a step in which a platform resume callback runs (the depth of
\* platform pauses goes down) does not turn paused from false to true.
C34_ResumeNeverPauses ==
    [][game'.platformPauseDepth < game.platformPauseDepth /\ ~game.paused
          => ~game'.paused]_vars

\* A run that was started during a platform pause and has simulated since
\* is paused, with the tab visible, no pause of the user's and no platform
\* pause pending: the resume callback has put back the paused of the menu.
C34_PausedByResume ==
    /\ game.runActive
    /\ ~game.gameOver
    /\ game.elapsedMs > 0
    /\ game.paused
    /\ ~game.manualPaused
    /\ ~documentHidden
    /\ game.platformPauseDepth = 0
    /\ game.wasPausedBeforePlatformPause
    /\ platform.adDepth = 0

\* C35: once every game_api_pause event has been followed by its
\* game_api_resume event and no ad is in flight, no platform pause is
\* pending.
C35_SuspendsBalance ==
    platform.sdkPending = 0 /\ platform.adDepth = 0 =>
        game.platformPauseDepth = 0

\* A platform pause is pending for good: every game_api_pause event has had
\* its game_api_resume event, no ad is in flight, and the game, which has
\* had a rewarded revive, is paused.
C35_ResumeLost ==
    /\ platform.sdkPending = 0
    /\ platform.adDepth = 0
    /\ platform.ads = EmptyBag
    /\ game.platformPauseDepth = 1
    /\ game.paused
    /\ ~game.gameOver
    /\ ~game.manualPaused
    /\ game.deathCount = 1

\* C36: a run that is running is not reset by the completion of an
\* interstitial: no step that resolves the promise of showInterstitial
\* starts a run on a game whose run is active and not over.
C36_RunningRunNotReset ==
    [][game.runActive /\ ~game.gameOver
          /\ platform'.lastResolved.kind = "start"
          => game'.runsStarted = game.runsStarted]_vars

\* The completion of an interstitial has just started a run, one more than
\* the deaths so far allow for: the run before it had not ended.
C36_RunResetByCompletion ==
    /\ platform.lastResolved.kind = "start"
    /\ game.runsStarted > game.deathCount + 1
    /\ game.runActive
    /\ game.elapsedMs = 0

\* C37: a gate pair that a simulated frame moves off the screen, to
\* HEIGHT + 80 or below, is one that was resolved.
C37_PassedPairsResolved ==
    [][Simulating(game) /\ FrameDt > 0 =>
          \A i \in 1..Len(game.gates) :
             game.gates[i].y + Step(forwardSpeed(game), FrameDt)
                 >= (HEIGHT + 80) * Q
             => game.gates[i].chosen]_vars

\* In a run that is going, a pair that was never resolved is below the
\* boat, out of reach for good: the speed is eightfold, 60 pixels a frame,
\* and the reach is 52 pixels high.
C37_PairSkipped ==
    /\ Simulating(game)
    /\ effectMultiplier(game, "speedMultiplier") = 8
    /\ \E i \in 1..Len(game.gates) :
          /\ ~game.gates[i].chosen
          /\ game.gates[i].y > game.player.y + GATE_HEIGHT * Q

\* C37 for a speed of less than seven times the base speed: the frame
\* moves a pair by no more than the reach is high.
C37_ResolvedAtLowSpeed ==
    [][Simulating(game) /\ FrameDt > 0
          /\ effectMultiplier(game, "speedMultiplier") < 7 =>
          \A i \in 1..Len(game'.gates) :
             game'.gates[i].y > game'.player.y + GATE_HEIGHT * Q
             => game'.gates[i].chosen]_vars

\* C38: the step that settles a run (the death count goes up) sets the
\* session earnings to floor(distance / 10) + pickups collected, nothing
\* being added for a balance left over, and adds them to the wallet; they
\* are not negative.
C38_SettlementEarnings ==
    [][game'.deathCount = game.deathCount + 1 =>
          LET earnings == (game'.distance \div 10000) + game'.soulsCollected
          IN /\ game'.sessionEarningsBase = earnings
             /\ earnings >= 0
             /\ game'.saveData.walletCoins =
                   game.saveData.walletCoins + earnings]_vars

\* A run that collected pickups has just been settled: the earnings are
\* those of its distance and its pickups, and they are in the wallet.
C38_Witness ==
    /\ game.gameOver
    /\ game.deathCount = 1
    /\ game.soulsCollected > 0
    /\ game.distance >= 10 * 10000
    /\ game.sessionEarningsBase = (game.distance \div 10000) + game.soulsCollected
    /\ game.saveData.walletCoins = game.sessionEarningsBase

\* C39: a step lowers the best score only if it is a progress reset (the
\* click, or the completion of its save), and the step that enters GameOver
\* leaves the best score at floor(distance) of the run or above.
C39_BestScoreKept ==
    [][/\ (game'.saveData.bestScore < game.saveData.bestScore
              => /\ ProgressResetClick(MaxResets) \/ CloudSaveSettled
                 /\ game'.saveData = defaults)
       /\ (game'.deathCount = game.deathCount + 1
              => /\ game'.gameOver
                 /\ game'.saveData.bestScore >= game'.distance \div 1000)]_vars

\* A run has ended below the stored best score, which is kept.
C39_Witness ==
    /\ game.gameOver
    /\ game.deathCount = 1
    /\ game.distance > 0
    /\ game.distance \div 1000 < InitialBest
    /\ game.saveData.bestScore = InitialBest

\* A run has ended above the best score, which is now its score.
C39_NewBest ==
    /\ game.gameOver
    /\ game.deathCount = 2
    /\ game.gameOverBaseScore > 0
    /\ game.saveData.bestScore = game.distance \div 1000

\* C40: the shield count is never below 0 nor above the capacity.  A
\* simulation step adds one charge exactly when regeneration is enabled, the
\* count is below the capacity and the regeneration timer runs out in the
\* step; each obstacle that hits the boat outside invulnerability takes one
\* charge while there is one; the timer is back at the regeneration period
\* after a step that regenerated or absorbed, has run by the length of the
\* frame when regeneration was due and did not happen, and stands otherwise.
\* Any other step changes the count only by starting a run, at the capacity.
C40_Shields ==
    /\ [](0 <= game.shieldCount /\ game.shieldCount <= game.shieldMax)
    /\ [][IF Simulating(game) /\ FrameDt > 0
          THEN LET enabled == game.shieldRegenSec > 0
                              /\ game.shieldCount < game.shieldMax
                   ranOut == enabled /\ game.shieldRegenTimer - FrameDt <= 0
                   charged == game.shieldCount + (IF ranOut THEN 1 ELSE 0)
                   hits == IF game'.reviveInvulnMs > 0 THEN 0
                           ELSE Cardinality(Touching)
                   absorbed == IF hits < charged THEN hits ELSE charged
               IN /\ game'.shieldCount = charged - absorbed
                  /\ game'.shieldMax = game.shieldMax
                  /\ game'.shieldRegenTimer =
                        IF ranOut \/ absorbed > 0 THEN game.shieldRegenSec
                        ELSE IF enabled THEN game.shieldRegenTimer - FrameDt
                        ELSE game.shieldRegenTimer
          ELSE game'.shieldCount # game.shieldCount
                  => /\ game'.runsStarted # game.runsStarted
                     /\ game'.shieldCount = game'.shieldMax]_vars

\* A run with one shield of capacity has lost it to an obstacle and the
\* regeneration timer, restarted by the hit, is running.
C40_Witness ==
    /\ Simulating(game)
    /\ game.shieldMax = 1
    /\ game.shieldCount = 0
    /\ game.shieldRegenSec > 0
    /\ 0 < game.shieldRegenTimer
    /\ game.shieldRegenTimer < game.shieldRegenSec

====
